---- MODULE Spec2Model ----
(***************************************************************************)
(* Model of the exchange in src/app.py (module-level tables USERS, TOKENS, *)
(* ORDERS, V2_ORDERS, TRADES, BALANCES, COLLATERAL and the request         *)
(* handlers of class Handler) and of the reference simulation in           *)
(* src/checker.py.  A handler is one atomic action: it reads the tables,   *)
(* computes its result and writes the tables, the response and the events  *)
(* it broadcasts.  The server is a ThreadingHTTPServer without any lock    *)
(* (run, src/app.py:2342-2345), so a handler is also modelled in steps     *)
(* where the interleaving of two requests is the subject: THREADS holds    *)
(* the local variables of the handlers that are under way.                 *)
(*                                                                         *)
(* Representation choices:                                                 *)
(*  - uuid4 identifiers are replaced by fresh numbers: an order_id is the  *)
(*    position the order takes in V2_ORDERS, a token is the pair of the    *)
(*    user it was minted for and a serial number, TOKENS the set of live   *)
(*    tokens (the keys of the dict; the value is the pair's first part);   *)
(*  - an order keeps delivery_start only: every stored order passed the    *)
(*    check delivery_end = delivery_start + HOUR_MS;                       *)
(*  - trade_id and timestamp of a trade are left out; the auxiliary field  *)
(*    "resting" of a trade names the resting order that was hit (the code  *)
(*    does not store it, it is history kept for the properties);           *)
(*  - "response" is the HTTP answer of the last request; the broadcast     *)
(*    calls a request makes are the "published" field of its outcome;      *)
(*  - a websocket is a number; SOCKETS keeps for each one whether the peer  *)
(*    still reads it and the frames the peer has received, in order;       *)
(*  - ISSUED is the set of tokens uuid4 has produced so far: a token that  *)
(*    was deleted is never minted again;                                   *)
(*  - a DNA string is the sequence of its characters; DNA_SAMPLES holds    *)
(*    the references of each user, dna the reference, the sample and the   *)
(*    bound the two distance routines are run on.                          *)
(***************************************************************************)
EXTENDS Integers, Sequences, FiniteSets, TLC

VARIABLES USERS, TOKENS, ORDERS, V2_ORDERS, TRADES, BALANCES, COLLATERAL,
          now, response, chk, ISSUED, THREADS, TRADE_STREAM_CLIENTS,
          ORDER_BOOK_STREAM_CLIENTS, EXECUTION_REPORT_CLIENTS, SOCKETS,
          DNA_SAMPLES, dna

(* the client registries of the three streams and the sockets in them *)
streams == <<TRADE_STREAM_CLIENTS, ORDER_BOOK_STREAM_CLIENTS,
             EXECUTION_REPORT_CLIENTS, SOCKETS>>

(* the DNA references of the users and the DNA strings at hand *)
dnas == <<DNA_SAMPLES, dna>>

vars == <<USERS, TOKENS, ORDERS, V2_ORDERS, TRADES, BALANCES, COLLATERAL,
          now, response, chk, ISSUED, THREADS, streams, dnas>>

--------------------------------------------------------------------------
(* Bounds of the model *)

MaxOrders == 2
MaxTrades == 2
MaxV1Orders == 1
MaxTokens == 1
MaxQty == 2
MaxOps == 3
MaxLogins == 2
MaxSockets == 2
MaxFrames == 4
MaxThreads == 2
MaxCodons == 3
MaxDiff == 3

(* Program constants *)

HOUR_MS == 3600000
OPEN_MS == 15 * 24 * 60 * 60 * 1000
CLOSE_MS == 60 * 1000

(* Input domains *)

None == "none"
NoLimit == <<>>
Usernames == {"a", "b"}
Passwords == {"pw"}
Sides == {"buy", "sell"}
ExecutionTypes == {"GTC", "IOC", "FOK"}
Prices == {-1, 1}
Quantities == 1 .. MaxQty
CollateralValues == {1}
DeliveryStart == 361 * HOUR_MS
GoodContract == <<DeliveryStart, DeliveryStart + HOUR_MS>>
BadContract == <<DeliveryStart, DeliveryStart + HOUR_MS - 1>>
Times == {DeliveryStart - OPEN_MS - 1, DeliveryStart - OPEN_MS,
          DeliveryStart - CLOSE_MS, DeliveryStart - CLOSE_MS + 1}
Tokens == Usernames \X (1 .. MaxTokens)
BadToken == <<"a", 0>>
OrderIdInputs == 1 .. MaxOrders

(* the bodies of POST /v2/orders: the well-formed ones and one of each     *)
(* malformed kind                                                          *)
SubmitRequests ==
    [token : Tokens, side : Sides, price : Prices, quantity : Quantities,
     contract : {GoodContract}, execution_type : ExecutionTypes]
    \cup {[token |-> BadToken, side |-> "buy", price |-> 1, quantity |-> 1,
           contract |-> GoodContract, execution_type |-> "GTC"],
          [token |-> <<"a", 1>>, side |-> "buy", price |-> 1, quantity |-> 0,
           contract |-> GoodContract, execution_type |-> "GTC"],
          [token |-> <<"a", 1>>, side |-> "buy", price |-> 1, quantity |-> 1,
           contract |-> BadContract, execution_type |-> "GTC"]}

--------------------------------------------------------------------------
(* Helpers *)

Min(x, y) == IF x <= y THEN x ELSE y

RECURSIVE SumSeq(_)
SumSeq(s) == IF s = <<>> THEN 0 ELSE Head(s) + SumSeq(Tail(s))

Range(s) == {s[i] : i \in DOMAIN s}

(* no DNA string is at hand *)
NoDna == [reference |-> <<>>, sample |-> <<>>, max_diff |-> 0,
          measured |-> FALSE, bounded |-> 0, full |-> 0]

NoResponse == [op |-> "none", code |-> 0, status |-> None,
               execution_type |-> None, staged |-> 0]

Reply(op, code) == [NoResponse EXCEPT !.op = op, !.code = code]

ReplyOrder(op, status, etype) ==
    [op |-> op, code |-> 200, status |-> status,
     execution_type |-> etype, staged |-> 0]

(* the frames of the three streams; owner is the user an execution report *)
(* is routed to                                                           *)
TradeEvent(t) ==
    [topic |-> "trades", kind |-> "TRADE", order_id |-> t.resting,
     owner |-> None]
BookEvent(id, change_type) ==
    [topic |-> "order_book", kind |-> change_type, order_id |-> id,
     owner |-> None]
ReportEvent(id, owner, status) ==
    [topic |-> "execution_reports", kind |-> status, order_id |-> id,
     owner |-> owner]

(* the payload of Handler._broadcast_execution_report_for_order *)
execution_report(order) ==
    LET remaining == IF order.quantity < 0 THEN 0 ELSE order.quantity
        filled == order.original_quantity - remaining
    IN [order_id |-> order.order_id, status |-> order.status,
        filled_quantity |-> IF filled < 0 THEN 0 ELSE filled,
        remaining_quantity |-> remaining]

(* Handler._get_authenticated_user: TOKENS.get(token) *)
get_authenticated_user(token) ==
    IF token \in TOKENS THEN token[1] ELSE None

(* a window that is open at neither of its two ends *)
check_trading_window_open_ends(delivery_start) ==
    LET open_time == delivery_start - OPEN_MS
        close_time == delivery_start - CLOSE_MS
    IN IF now <= open_time THEN 425
       ELSE IF now >= close_time THEN 451
       ELSE 0

(* Handler._check_trading_window: 0 when inside, else the status sent *)
check_trading_window(delivery_start) ==
    LET open_time == delivery_start - OPEN_MS
        close_time == delivery_start - CLOSE_MS
    IN IF now < open_time THEN 425
       ELSE IF now > close_time THEN 451
       ELSE 0

(* a ledger update that debits the buyer and forgets the seller *)
apply_trade_debit_only(bal, buyer_id, seller_id, price, quantity) ==
    [bal EXCEPT ![buyer_id] = @ - price * quantity]

(* Handler._apply_trade_balances *)
apply_trade_balances(bal, buyer_id, seller_id, price, quantity) ==
    LET amount == price * quantity
        b1 == [bal EXCEPT ![buyer_id] = @ - amount]
    IN [b1 EXCEPT ![seller_id] = @ + amount]

(* Handler._compute_potential_balance *)
V1Commitment(username) ==
    SumSeq([i \in DOMAIN ORDERS |->
              IF ORDERS[i].active /\ ORDERS[i].seller_id = username
                 /\ ORDERS[i].quantity > 0
              THEN ORDERS[i].price * ORDERS[i].quantity ELSE 0])

signed_commitment(side, price, qty) ==
    IF side = "buy" THEN -(price * qty) ELSE price * qty

V2Commitment(username) ==
    SumSeq([i \in DOMAIN V2_ORDERS |->
              IF V2_ORDERS[i].owner = username /\ V2_ORDERS[i].status = "ACTIVE"
                 /\ V2_ORDERS[i].quantity > 0
              THEN signed_commitment(V2_ORDERS[i].side, V2_ORDERS[i].price,
                                     V2_ORDERS[i].quantity)
              ELSE 0])

compute_potential_balance(username) ==
    BALANCES[username] + V1Commitment(username) + V2Commitment(username)

(* Handler.handle_get_balance: the body of the answer; USERS[username] is  *)
(* None for a name that is not registered                                  *)
handle_get_balance(token) ==
    LET username == get_authenticated_user(token)
    IN IF username = None
       THEN [code |-> 401, balance |-> 0, potential_balance |-> 0]
       ELSE IF USERS[username] = None
       THEN [code |-> 404, balance |-> 0, potential_balance |-> 0]
       ELSE [code |-> 200, balance |-> BALANCES[username],
             potential_balance |-> compute_potential_balance(username)]

LiabilityIncreasing(side, price) ==
    (side = "buy" /\ price > 0) \/ (side = "sell" /\ price < 0)

(* Handler._check_collateral_create; COLLATERAL[u] is <<>> for a user with *)
(* no entry in the dict and <<limit>> otherwise                            *)
check_collateral_create(username, side, price, quantity) ==
    IF COLLATERAL[username] = NoLimit THEN TRUE
    ELSE IF ~LiabilityIncreasing(side, price) THEN TRUE
    ELSE compute_potential_balance(username)
           + signed_commitment(side, price, quantity) >= -COLLATERAL[username][1]

--------------------------------------------------------------------------
(* Price-time ordering of candidates: Python's stable list.sort on the key *)
(* (price, created_at) for asks and (-price, created_at) for bids; equal   *)
(* keys keep the order of the list they were selected from.                *)

(* a sort key that ignores the price *)
SortKeyTimeOnly(o, taker_side) == <<0, o.created_at>>

SortKey(o, taker_side) ==
    IF taker_side = "buy" THEN <<o.price, o.created_at>>
    ELSE <<-o.price, o.created_at>>

KeyLess(k1, k2) == k1[1] < k2[1] \/ (k1[1] = k2[1] /\ k1[2] < k2[2])

Before(book, i, j, taker_side) ==
    \/ KeyLess(SortKey(book[i], taker_side), SortKey(book[j], taker_side))
    \/ /\ SortKey(book[i], taker_side) = SortKey(book[j], taker_side)
       /\ i < j

RECURSIVE SortCandidates(_, _, _)
SortCandidates(book, idxs, taker_side) ==
    IF idxs = {} THEN <<>>
    ELSE LET m == CHOOSE i \in idxs :
                    \A j \in idxs \ {i} : Before(book, i, j, taker_side)
         IN <<m>> \o SortCandidates(book, idxs \ {m}, taker_side)

Crosses(side, price, resting_price) ==
    IF side = "buy" THEN resting_price <= price ELSE resting_price >= price

OppositeSide(side) == IF side = "buy" THEN "sell" ELSE "buy"

(* the candidate selection of handle_submit_order_v2 / handle_modify_order *)
SelectCandidates(orders, side, price, delivery_start, exclude_id) ==
    {i \in DOMAIN orders :
        /\ orders[i].status = "ACTIVE"
        /\ orders[i].side = OppositeSide(side)
        /\ orders[i].delivery_start = delivery_start
        /\ orders[i].quantity > 0
        /\ i # exclude_id
        /\ Crosses(side, price, orders[i].price)}

Candidates(orders, side, price, delivery_start, exclude_id) ==
    SortCandidates(orders,
                   SelectCandidates(orders, side, price, delivery_start, exclude_id),
                   side)

(* a self-match check that lets every order through *)
SelfMatchNever(orders, cands, username) == FALSE

SelfMatch(orders, cands, username) ==
    \E k \in DOMAIN cands : orders[cands[k]].owner = username

--------------------------------------------------------------------------
(* The matching loop of handle_submit_order_v2 and handle_modify_order.    *)
(* acc = [orders, trades, balances, published, remaining, filled]          *)

TradePrice(resting_price, incoming_price) == resting_price

TradeQty(remaining, resting_quantity) == Min(remaining, resting_quantity)

MakeTrade(username, side, resting, resting_id, price, qty, delivery_start) ==
    [buyer_id |-> IF side = "buy" THEN username ELSE resting.owner,
     seller_id |-> IF side = "buy" THEN resting.owner ELSE username,
     price |-> price, quantity |-> qty, delivery_start |-> delivery_start,
     source |-> "v2", resting |-> resting_id]

(* a fill that takes everything the resting order has *)
HitRestingAllGone(resting, trade_qty) ==
    [resting EXCEPT !.quantity = 0, !.status = "FILLED"]

(* a hit that takes the quantity and leaves the status as it is *)
HitRestingKeepsStatus(resting, trade_qty) ==
    [resting EXCEPT !.quantity = @ - trade_qty]

HitResting(resting, trade_qty) ==
    IF resting.quantity - trade_qty <= 0
    THEN [resting EXCEPT !.quantity = 0, !.status = "FILLED"]
    ELSE [resting EXCEPT !.quantity = @ - trade_qty]

RECURSIVE MatchLoop(_, _, _, _, _, _)
MatchLoop(cands, username, side, price, delivery_start, acc) ==
    IF cands = <<>> \/ acc.remaining <= 0 THEN acc
    ELSE LET i == Head(cands)
             resting == acc.orders[i]
         IN IF resting.status # "ACTIVE" \/ resting.quantity <= 0
            THEN MatchLoop(Tail(cands), username, side, price, delivery_start, acc)
            ELSE LET trade_qty == TradeQty(acc.remaining, resting.quantity)
                     trade == MakeTrade(username, side, resting, i,
                                        TradePrice(resting.price, price),
                                        trade_qty, delivery_start)
                     hit == HitResting(resting, trade_qty)
                     next == [orders |-> [acc.orders EXCEPT ![i] = hit],
                              trades |-> Append(acc.trades, trade),
                              balances |-> apply_trade_balances(acc.balances,
                                              trade.buyer_id, trade.seller_id,
                                              trade.price, trade.quantity),
                              published |-> acc.published \o
                                 <<TradeEvent(trade),
                                   BookEvent(i, IF hit.status = "FILLED"
                                                THEN "REMOVE" ELSE "MODIFY"),
                                   ReportEvent(i, resting.owner, hit.status)>>,
                              remaining |-> acc.remaining - trade_qty,
                              filled |-> acc.filled + trade_qty]
                 IN IF trade_qty <= 0
                    THEN MatchLoop(Tail(cands), username, side, price,
                                   delivery_start, acc)
                    ELSE MatchLoop(Tail(cands), username, side, price,
                                   delivery_start, next)

StartAcc(orders, remaining) ==
    [orders |-> orders, trades |-> TRADES, balances |-> BALANCES,
     published |-> <<>>, remaining |-> remaining, filled |-> 0]

(* A handler's outcome: the tables it leaves, its answer (filled_quantity *)
(* is part of the answer's body) and the broadcasts it makes, in order     *)
Outcome(orders, trades, balances, resp, filled, pub) ==
    [orders |-> orders, trades |-> trades, balances |-> balances,
     response |-> resp, filled_quantity |-> filled, published |-> pub]

Rejected(op, code) ==
    Outcome(V2_ORDERS, TRADES, BALANCES, Reply(op, code), 0, <<>>)

ValidContract(delivery_start, delivery_end) ==
    /\ delivery_start % HOUR_MS = 0
    /\ delivery_end % HOUR_MS = 0
    /\ delivery_end > delivery_start
    /\ delivery_end - delivery_start = HOUR_MS

(* the FOK pre-check of handle_submit_order_v2 *)
RECURSIVE FOKTotalPossible(_, _, _, _)
FOKTotalPossible(orders, cands, quantity, total) ==
    IF cands = <<>> THEN total
    ELSE LET resting == orders[Head(cands)]
         IN IF resting.status # "ACTIVE" \/ resting.quantity <= 0
            THEN FOKTotalPossible(orders, Tail(cands), quantity, total)
            ELSE IF total + resting.quantity >= quantity
                 THEN total + resting.quantity
                 ELSE FOKTotalPossible(orders, Tail(cands), quantity,
                                       total + resting.quantity)

(* a pre-check that also cancels when the crossable quantity is exactly *)
(* the order's quantity                                                 *)
FOKCancelsAtEquality(orders, cands, quantity) ==
    FOKTotalPossible(orders, cands, quantity, 0) <= quantity

FOKCancels(orders, cands, quantity) ==
    FOKTotalPossible(orders, cands, quantity, 0) < quantity

(* an order that rests with the quantity it was submitted with *)
NewOrderFullQuantity(id, side, owner, price, quantity, delivery_start, original_quantity) ==
    [order_id |-> id, side |-> side, owner |-> owner, price |-> price,
     quantity |-> original_quantity, delivery_start |-> delivery_start,
     status |-> "ACTIVE", created_at |-> now,
     original_quantity |-> original_quantity]

NewOrder(id, side, owner, price, quantity, delivery_start, original_quantity) ==
    [order_id |-> id, side |-> side, owner |-> owner, price |-> price,
     quantity |-> quantity, delivery_start |-> delivery_start,
     status |-> "ACTIVE", created_at |-> now,
     original_quantity |-> original_quantity]

(* an epilogue that reports every IOC order as FILLED *)
SubmitStatusIOCFilled(execution_type, remaining) ==
    IF execution_type = "GTC"
    THEN (IF remaining > 0 THEN "ACTIVE" ELSE "FILLED")
    ELSE "FILLED"

(* the execution-type epilogue of handle_submit_order_v2 *)
SubmitStatus(execution_type, remaining) ==
    IF execution_type = "GTC"
    THEN (IF remaining > 0 THEN "ACTIVE" ELSE "FILLED")
    ELSE IF execution_type = "IOC"
    THEN (IF remaining <= 0 THEN "FILLED" ELSE "CANCELLED")
    ELSE "FILLED"

SubmitMatched(username, side, price, quantity, delivery_start, execution_type, cands) ==
    LET acc == MatchLoop(cands, username, side, price, delivery_start,
                         StartAcc(V2_ORDERS, quantity))
        order_id == Len(V2_ORDERS) + 1
        status == SubmitStatus(execution_type, acc.remaining)
        rests == execution_type = "GTC" /\ acc.remaining > 0
        new_order == NewOrder(order_id, side, username, price, acc.remaining,
                              delivery_start, quantity)
    IN Outcome(IF rests THEN Append(acc.orders, new_order) ELSE acc.orders,
               acc.trades, acc.balances,
               ReplyOrder("submit", status, execution_type), acc.filled,
               acc.published
                 \o (IF rests THEN <<BookEvent(order_id, "ADD")>> ELSE <<>>)
                 \o <<ReportEvent(order_id, username, status)>>)

SubmitAdmitted(username, side, price, quantity, delivery_start, execution_type) ==
    LET cands == Candidates(V2_ORDERS, side, price, delivery_start, 0)
    IN IF SelfMatch(V2_ORDERS, cands, username) THEN Rejected("submit", 412)
       ELSE IF execution_type = "FOK" /\ FOKCancels(V2_ORDERS, cands, quantity)
       THEN Outcome(V2_ORDERS, TRADES, BALANCES,
                    ReplyOrder("submit", "CANCELLED", execution_type), 0,
                    <<ReportEvent(Len(V2_ORDERS) + 1, username, "CANCELLED")>>)
       ELSE SubmitMatched(username, side, price, quantity, delivery_start,
                          execution_type, cands)

(* Handler.handle_submit_order_v2 *)
handle_submit_order_v2(token, side, price, quantity, delivery_start, delivery_end, execution_type) ==
    LET username == get_authenticated_user(token)
    IN IF username = None THEN Rejected("submit", 401)
       ELSE IF quantity <= 0 THEN Rejected("submit", 400)
       ELSE IF ~ValidContract(delivery_start, delivery_end)
       THEN Rejected("submit", 400)
       ELSE IF check_trading_window(delivery_start) # 0
       THEN Rejected("submit", check_trading_window(delivery_start))
       ELSE IF ~check_collateral_create(username, side, price, quantity)
       THEN Rejected("submit", 402)
       ELSE SubmitAdmitted(username, side, price, quantity, delivery_start,
                           execution_type)

--------------------------------------------------------------------------
(* Handler._check_collateral_modify *)
ModifiedCommitment(orders, username, order_id, new_price, new_quantity) ==
    SumSeq([i \in DOMAIN orders |->
              IF orders[i].owner = username /\ orders[i].status = "ACTIVE"
                 /\ orders[i].quantity > 0
              THEN (IF i = order_id
                    THEN signed_commitment(orders[i].side, new_price, new_quantity)
                    ELSE signed_commitment(orders[i].side, orders[i].price,
                                           orders[i].quantity))
              ELSE 0])

check_collateral_modify(username, order_id, new_price, new_quantity) ==
    LET target_counted ==
            /\ order_id \in DOMAIN V2_ORDERS
            /\ V2_ORDERS[order_id].owner = username
            /\ V2_ORDERS[order_id].status = "ACTIVE"
            /\ V2_ORDERS[order_id].quantity > 0
    IN IF COLLATERAL[username] = NoLimit THEN TRUE
       ELSE IF ~target_counted THEN TRUE
       ELSE IF ~LiabilityIncreasing(V2_ORDERS[order_id].side, new_price) THEN TRUE
       ELSE BALANCES[username]
              + ModifiedCommitment(V2_ORDERS, username, order_id, new_price,
                                   new_quantity) >= -COLLATERAL[username][1]

(* handle_modify_order, lines 1912-1924: the order as rewritten before the *)
(* matching loop                                                            *)
(* a modify that keeps the priority only when nothing at all changes *)
KeepsPriorityIfSame(old_price, old_quantity, new_price, new_quantity) ==
    new_price = old_price /\ new_quantity = old_quantity

KeepsPriority(old_price, old_quantity, new_price, new_quantity) ==
    ~(new_price # old_price \/ new_quantity > old_quantity)

Rewritten(order, new_price, new_quantity) ==
    [order EXCEPT
       !.original_quantity = (order.original_quantity - order.quantity) + new_quantity,
       !.price = new_price,
       !.quantity = new_quantity,
       !.created_at = IF KeepsPriority(order.price, order.quantity, new_price,
                                       new_quantity)
                      THEN @ ELSE now]

ModifyAdmitted(username, order_id, new_price, new_quantity, cands) ==
    LET order == V2_ORDERS[order_id]
        rewritten == [V2_ORDERS EXCEPT
                        ![order_id] = Rewritten(order, new_price, new_quantity)]
        acc == MatchLoop(cands, username, order.side, new_price,
                         order.delivery_start, StartAcc(rewritten, new_quantity))
        final == IF acc.remaining <= 0
                 THEN [acc.orders[order_id] EXCEPT !.quantity = 0,
                                                   !.status = "FILLED"]
                 ELSE [acc.orders[order_id] EXCEPT !.quantity = acc.remaining]
    IN Outcome([acc.orders EXCEPT ![order_id] = final], acc.trades, acc.balances,
               ReplyOrder("modify", final.status, None), acc.filled,
               acc.published
                 \o <<BookEvent(order_id, IF final.status = "ACTIVE"
                                          THEN "MODIFY" ELSE "REMOVE"),
                      ReportEvent(order_id, username, final.status)>>)

(* the lookup shared by handle_modify_order and handle_cancel_order *)
FindActive(order_id) ==
    /\ order_id \in DOMAIN V2_ORDERS
    /\ V2_ORDERS[order_id].status = "ACTIVE"
    /\ V2_ORDERS[order_id].quantity > 0

(* a modify that rewrites the order before it checks the collateral *)
handle_modify_order_rewrite_first(token, order_id, new_price, new_quantity) ==
    LET username == get_authenticated_user(token)
    IN IF username = None THEN Rejected("modify", 401)
       ELSE IF new_quantity <= 0 THEN Rejected("modify", 400)
       ELSE IF ~FindActive(order_id) THEN Rejected("modify", 404)
       ELSE IF V2_ORDERS[order_id].owner # username THEN Rejected("modify", 403)
       ELSE LET cands == Candidates(V2_ORDERS, V2_ORDERS[order_id].side, new_price,
                                    V2_ORDERS[order_id].delivery_start, order_id)
            IN IF SelfMatch(V2_ORDERS, cands, username)
               THEN Rejected("modify", 412)
               ELSE IF ~check_collateral_modify(username, order_id, new_price,
                                                new_quantity)
               THEN Outcome([V2_ORDERS EXCEPT ![order_id] =
                                Rewritten(@, new_price, new_quantity)],
                            TRADES, BALANCES, Reply("modify", 402), 0, <<>>)
               ELSE ModifyAdmitted(username, order_id, new_price, new_quantity,
                                   cands)

(* Handler.handle_modify_order *)
handle_modify_order(token, order_id, new_price, new_quantity) ==
    LET username == get_authenticated_user(token)
    IN IF username = None THEN Rejected("modify", 401)
       ELSE IF new_quantity <= 0 THEN Rejected("modify", 400)
       ELSE IF ~FindActive(order_id) THEN Rejected("modify", 404)
       ELSE IF V2_ORDERS[order_id].owner # username THEN Rejected("modify", 403)
       ELSE LET cands == Candidates(V2_ORDERS, V2_ORDERS[order_id].side, new_price,
                                    V2_ORDERS[order_id].delivery_start, order_id)
            IN IF SelfMatch(V2_ORDERS, cands, username)
               THEN Rejected("modify", 412)
               ELSE IF ~check_collateral_modify(username, order_id, new_price,
                                                new_quantity)
               THEN Rejected("modify", 402)
               ELSE ModifyAdmitted(username, order_id, new_price, new_quantity,
                                   cands)

(* handle_cancel_order, line 2020: what a cancel writes into the order *)
Cancelled(order) == [order EXCEPT !.status = "CANCELLED"]

(* a cancel that does not ask whose order it is *)
handle_cancel_order_of_anyone(token, order_id) ==
    LET username == get_authenticated_user(token)
    IN IF username = None THEN Rejected("cancel", 401)
       ELSE IF ~FindActive(order_id) THEN Rejected("cancel", 404)
       ELSE Outcome([V2_ORDERS EXCEPT ![order_id] = Cancelled(@)], TRADES,
                    BALANCES, Reply("cancel", 204), 0,
                    <<BookEvent(order_id, "REMOVE"),
                      ReportEvent(order_id, V2_ORDERS[order_id].owner,
                                  "CANCELLED")>>)

(* Handler.handle_cancel_order *)
handle_cancel_order(token, order_id) ==
    LET username == get_authenticated_user(token)
    IN IF username = None THEN Rejected("cancel", 401)
       ELSE IF ~FindActive(order_id) THEN Rejected("cancel", 404)
       ELSE IF V2_ORDERS[order_id].owner # username THEN Rejected("cancel", 403)
       ELSE Outcome([V2_ORDERS EXCEPT ![order_id] = Cancelled(@)], TRADES,
                    BALANCES, Reply("cancel", 204), 0,
                    <<BookEvent(order_id, "REMOVE"),
                      ReportEvent(order_id, V2_ORDERS[order_id].owner,
                                  "CANCELLED")>>)

--------------------------------------------------------------------------
(* Bulk operations: simulation against staged results, then commit.        *)
(* A staged result is [action, order_id, status, order, trades, new_price, *)
(* new_quantity, created_at]; order and created_at are <<>> when the       *)
(* result dict has no such entry (or None) and <<value>> otherwise.        *)

Staged(action, order_id, status, order, trades, new_price, new_quantity, created_at) ==
    [action |-> action, order_id |-> order_id, status |-> status, order |-> order,
     trades |-> trades, new_price |-> new_price, new_quantity |-> new_quantity,
     created_at |-> created_at]

SimEntry(order_id, side, owner, price, quantity, created_at) ==
    [order_id |-> order_id, side |-> side, owner |-> owner, price |-> price,
     quantity |-> quantity, created_at |-> created_at]

(* the first staged cancel or modify of an order, 0 when there is none *)
FirstStagedChange(staged_ops, order_id) ==
    LET hits == {k \in DOMAIN staged_ops :
                   /\ staged_ops[k].order_id = order_id
                   /\ staged_ops[k].action \in {"cancel", "modify"}}
    IN IF hits = {} THEN 0 ELSE CHOOSE k \in hits : \A j \in hits : k <= j

HasStagedChange(staged_ops, order_id) == FirstStagedChange(staged_ops, order_id) # 0

SimOfReal(o, staged_ops) ==
    LET k == FirstStagedChange(staged_ops, o.order_id)
    IN IF k = 0
       THEN <<SimEntry(o.order_id, o.side, o.owner, o.price, o.quantity,
                       o.created_at)>>
       ELSE IF staged_ops[k].action = "cancel" THEN <<>>
       ELSE <<SimEntry(o.order_id, o.side, o.owner, staged_ops[k].new_price,
                       staged_ops[k].new_quantity,
                       IF staged_ops[k].created_at = <<>> THEN o.created_at
                       ELSE staged_ops[k].created_at[1])>>

RECURSIVE SimRealPart(_, _, _, _)
SimRealPart(i, ds, staged_ops, exclude_order_id) ==
    IF i > Len(V2_ORDERS) THEN <<>>
    ELSE LET o == V2_ORDERS[i]
             listed == /\ o.status = "ACTIVE"
                       /\ o.quantity > 0
                       /\ o.delivery_start = ds
                       /\ o.order_id # exclude_order_id
         IN (IF listed THEN SimOfReal(o, staged_ops) ELSE <<>>)
              \o SimRealPart(i + 1, ds, staged_ops, exclude_order_id)

RECURSIVE SimStagedPart(_)
SimStagedPart(staged_ops) ==
    IF staged_ops = <<>> THEN <<>>
    ELSE LET sop == Head(staged_ops)
         IN (IF sop.action = "create" /\ sop.order # <<>>
             THEN <<SimEntry(sop.order[1].order_id, sop.order[1].side,
                             sop.order[1].owner, sop.order[1].price,
                             sop.order[1].quantity, sop.order[1].created_at)>>
             ELSE <<>>) \o SimStagedPart(Tail(staged_ops))

(* Handler._build_sim_order_book; exclude_order_id 0 stands for None *)
build_sim_order_book(ds, staged_ops, exclude_order_id) ==
    SimRealPart(1, ds, staged_ops, exclude_order_id) \o SimStagedPart(staged_ops)

SimCandidates(sim_book, side, price) ==
    SortCandidates(sim_book,
                   {i \in DOMAIN sim_book :
                      /\ sim_book[i].side = OppositeSide(side)
                      /\ Crosses(side, price, sim_book[i].price)},
                   side)

(* the matching loop of _bulk_sim_create and _bulk_sim_modify: it collects *)
(* trades and decrements the entries of the sim book built for this op     *)
RECURSIVE SimMatch(_, _, _, _, _, _, _)
SimMatch(cands, sim_book, username, side, ds, remaining, trades) ==
    IF cands = <<>> \/ remaining <= 0
    THEN [remaining |-> remaining, trades |-> trades]
    ELSE LET resting == sim_book[Head(cands)]
             trade_qty == TradeQty(remaining, resting.quantity)
         IN IF resting.quantity <= 0 \/ trade_qty <= 0
            THEN SimMatch(Tail(cands), sim_book, username, side, ds, remaining,
                          trades)
            ELSE SimMatch(Tail(cands), sim_book, username, side, ds,
                          remaining - trade_qty,
                          Append(trades,
                                 MakeTrade(username, side, resting,
                                           resting.order_id, resting.price,
                                           trade_qty, ds)))

StagedCreates(staged_ops) ==
    {k \in DOMAIN staged_ops :
       staged_ops[k].action = "create" /\ staged_ops[k].order # <<>>}

(* Handler._find_order_in_sim: <<>> for None, else <<the dict found>> *)
find_order_in_sim(order_id, ds, staged_ops) ==
    LET made == {k \in StagedCreates(staged_ops) :
                   staged_ops[k].order[1].order_id = order_id}
    IN IF made # {}
       THEN <<staged_ops[CHOOSE k \in made : \A j \in made : k <= j].order[1]>>
       ELSE IF order_id \notin DOMAIN V2_ORDERS THEN <<>>
       ELSE IF V2_ORDERS[order_id].status # "ACTIVE"
               \/ V2_ORDERS[order_id].quantity <= 0 THEN <<>>
       ELSE IF V2_ORDERS[order_id].delivery_start # ds THEN <<>>
       ELSE <<V2_ORDERS[order_id]>>

RECURSIVE StagedTradeEffect(_, _)
StagedTradeEffect(trades, username) ==
    IF trades = <<>> THEN 0
    ELSE LET t == Head(trades)
             amount == t.price * t.quantity
         IN (IF t.buyer_id = username THEN -amount
             ELSE IF t.seller_id = username THEN amount ELSE 0)
            + StagedTradeEffect(Tail(trades), username)

StagedBalance(username, staged_ops) ==
    BALANCES[username]
      + SumSeq([k \in DOMAIN staged_ops |->
                  StagedTradeEffect(staged_ops[k].trades, username)])

(* Handler._check_collateral_in_sim_state *)
check_collateral_in_sim_state(username, side, price, quantity, staged_ops) ==
    LET real == SumSeq([i \in DOMAIN V2_ORDERS |->
                  IF /\ V2_ORDERS[i].owner = username
                     /\ V2_ORDERS[i].status = "ACTIVE"
                     /\ V2_ORDERS[i].quantity > 0
                     /\ ~HasStagedChange(staged_ops, V2_ORDERS[i].order_id)
                  THEN signed_commitment(V2_ORDERS[i].side, V2_ORDERS[i].price,
                                         V2_ORDERS[i].quantity)
                  ELSE 0])
        staged == SumSeq([k \in DOMAIN staged_ops |->
                  LET sop == staged_ops[k]
                  IN IF sop.action = "create" /\ sop.order # <<>>
                     THEN (IF sop.order[1].owner = username
                           THEN signed_commitment(sop.order[1].side,
                                                  sop.order[1].price,
                                                  sop.order[1].quantity)
                           ELSE 0)
                     ELSE IF /\ sop.action = "modify"
                             /\ sop.order_id \in DOMAIN V2_ORDERS
                             /\ V2_ORDERS[sop.order_id].owner = username
                     THEN signed_commitment(V2_ORDERS[sop.order_id].side,
                                            sop.new_price, sop.new_quantity)
                     ELSE 0])
    IN IF COLLATERAL[username] = NoLimit THEN TRUE
       ELSE IF ~LiabilityIncreasing(side, price) THEN TRUE
       ELSE StagedBalance(username, staged_ops) + real + staged
              + signed_commitment(side, price, quantity)
              >= -COLLATERAL[username][1]

(* Handler._check_collateral_modify_in_sim *)
check_collateral_modify_in_sim(username, order_id, new_price, new_quantity, staged_ops) ==
    LET is_real == order_id \in DOMAIN V2_ORDERS
                     /\ V2_ORDERS[order_id].owner = username
        made == {k \in StagedCreates(staged_ops) :
                   staged_ops[k].order[1].order_id = order_id}
        target_side ==
            IF is_real THEN V2_ORDERS[order_id].side
            ELSE staged_ops[CHOOSE k \in made : \A j \in made : k <= j].order[1].side
        real == SumSeq([i \in DOMAIN V2_ORDERS |->
                  IF /\ V2_ORDERS[i].owner = username
                     /\ V2_ORDERS[i].status = "ACTIVE"
                     /\ V2_ORDERS[i].quantity > 0
                  THEN (IF V2_ORDERS[i].order_id = order_id
                        THEN signed_commitment(V2_ORDERS[i].side, new_price,
                                               new_quantity)
                        ELSE IF HasStagedChange(staged_ops, V2_ORDERS[i].order_id)
                        THEN 0
                        ELSE signed_commitment(V2_ORDERS[i].side,
                                               V2_ORDERS[i].price,
                                               V2_ORDERS[i].quantity))
                  ELSE 0])
        staged == SumSeq([k \in DOMAIN staged_ops |->
                  LET sop == staged_ops[k]
                  IN IF /\ sop.action = "create" /\ sop.order # <<>>
                        /\ sop.order[1].owner = username
                        /\ sop.order[1].order_id # order_id
                     THEN signed_commitment(sop.order[1].side, sop.order[1].price,
                                            sop.order[1].quantity)
                     ELSE 0])
    IN IF COLLATERAL[username] = NoLimit THEN TRUE
       ELSE IF ~is_real /\ made = {} THEN TRUE
       ELSE IF ~LiabilityIncreasing(target_side, new_price) THEN TRUE
       ELSE StagedBalance(username, staged_ops) + real + staged
              >= -COLLATERAL[username][1]

SimFail(code) == [ok |-> FALSE, status |-> code, result |-> <<>>]
SimOk(result) == [ok |-> TRUE, status |-> 200, result |-> <<result>>]

(* Handler._bulk_sim_create *)
bulk_sim_create(username, op, ds, staged_ops) ==
    LET order_id == Len(V2_ORDERS) + Cardinality(StagedCreates(staged_ops)) + 1
        sim_book == build_sim_order_book(ds, staged_ops, 0)
        cands == SimCandidates(sim_book, op.side, op.price)
        m == SimMatch(cands, sim_book, username, op.side, ds, op.quantity, <<>>)
        et == op.execution_type
        status == SubmitStatus(et, m.remaining)
        order == IF et = "GTC" /\ m.remaining > 0
                 THEN <<NewOrder(order_id, op.side, username, op.price,
                                 m.remaining, ds, op.quantity)>>
                 ELSE <<>>
    IN IF op.quantity <= 0 THEN SimFail(400)
       ELSE IF ~check_collateral_in_sim_state(username, op.side, op.price,
                                              op.quantity, staged_ops)
       THEN SimFail(402)
       ELSE IF SelfMatch(sim_book, cands, username) THEN SimFail(412)
       ELSE IF et = "FOK" /\ m.remaining > 0
       THEN SimOk(Staged("create", order_id, "CANCELLED", <<>>, <<>>, 0, 0, <<>>))
       ELSE SimOk(Staged("create", order_id, status, order, m.trades, 0, 0, <<>>))

(* Handler._bulk_sim_modify *)
bulk_sim_modify(username, op, ds, staged_ops) ==
    LET found == find_order_in_sim(op.order_id, ds, staged_ops)
        order == found[1]
        sim_book == build_sim_order_book(ds, staged_ops, op.order_id)
        cands == SimCandidates(sim_book, order.side, op.price)
        m == SimMatch(cands, sim_book, username, order.side, ds, op.quantity, <<>>)
    IN IF op.quantity <= 0 THEN SimFail(400)
       ELSE IF found = <<>> THEN SimFail(404)
       ELSE IF order.owner # username THEN SimFail(403)
       ELSE IF \E k \in DOMAIN staged_ops :
                  staged_ops[k].action = "cancel"
                  /\ staged_ops[k].order_id = op.order_id
       THEN SimFail(404)
       ELSE IF SelfMatch(sim_book, cands, username) THEN SimFail(412)
       ELSE IF ~check_collateral_modify_in_sim(username, op.order_id, op.price,
                                               op.quantity, staged_ops)
       THEN SimFail(402)
       ELSE SimOk(Staged("modify", op.order_id,
                         IF m.remaining <= 0 THEN "FILLED" ELSE "ACTIVE",
                         <<>>, m.trades, op.price, m.remaining,
                         IF KeepsPriority(order.price, order.quantity, op.price,
                                          op.quantity)
                         THEN <<>> ELSE <<now>>))

(* Handler._bulk_sim_cancel *)
bulk_sim_cancel(username, op, ds, staged_ops) ==
    LET found == find_order_in_sim(op.order_id, ds, staged_ops)
    IN IF found = <<>> THEN SimFail(404)
       ELSE IF found[1].owner # username THEN SimFail(403)
       ELSE IF \E k \in DOMAIN staged_ops :
                  staged_ops[k].action = "cancel"
                  /\ staged_ops[k].order_id = op.order_id
       THEN SimFail(404)
       ELSE SimOk(Staged("cancel", op.order_id, None, <<>>, <<>>, 0, 0, <<>>))

(* the dispatch of handle_bulk_operations on the op's type *)
bulk_sim_op(username, op, ds, staged_ops) ==
    IF op.type = "create" THEN bulk_sim_create(username, op, ds, staged_ops)
    ELSE IF op.type = "modify" THEN bulk_sim_modify(username, op, ds, staged_ops)
    ELSE bulk_sim_cancel(username, op, ds, staged_ops)

SimStopped(code, staged_ops) ==
    [ok |-> FALSE, status |-> code, staged |-> staged_ops]

SimDone(staged_ops) == [ok |-> TRUE, status |-> 200, staged |-> staged_ops]

(* the simulation loop of handle_bulk_operations over one contract's ops:  *)
(* SimulateOps takes the next op, OpStaged continues with its result       *)
RECURSIVE SimulateOps(_, _, _)
OpStaged(ops, ds, staged_ops, result) ==
    IF ~result.ok THEN SimStopped(result.status, staged_ops)
    ELSE SimulateOps(Tail(ops), ds, Append(staged_ops, result.result[1]))

OpAuthenticated(ops, ds, staged_ops, username) ==
    IF username = None THEN SimStopped(401, staged_ops)
    ELSE OpStaged(ops, ds, staged_ops,
                  bulk_sim_op(username, Head(ops), ds, staged_ops))

SimulateOps(ops, ds, staged_ops) ==
    IF ops = <<>> THEN SimDone(staged_ops)
    ELSE OpAuthenticated(ops, ds, staged_ops,
                         get_authenticated_user(Head(ops).token))

(* the loop of handle_bulk_operations over the contracts of the request:   *)
(* SimulateContracts checks the next contract, ContractStaged continues    *)
(* with the result of its ops                                              *)
RECURSIVE SimulateContracts(_, _)
ContractStaged(contracts, sim) ==
    IF ~sim.ok THEN sim ELSE SimulateContracts(Tail(contracts), sim.staged)

ContractChecked(contracts, staged_ops, operations, ds, de) ==
    IF operations = <<>> \/ ~ValidContract(ds, de)
    THEN SimStopped(400, staged_ops)
    ELSE IF check_trading_window(ds) # 0
    THEN SimStopped(check_trading_window(ds), staged_ops)
    ELSE ContractStaged(contracts, SimulateOps(operations, ds, staged_ops))

SimulateContracts(contracts, staged_ops) ==
    IF contracts = <<>> THEN SimDone(staged_ops)
    ELSE ContractChecked(contracts, staged_ops, Head(contracts).operations,
                         Head(contracts).contract[1], Head(contracts).contract[2])

RECURSIVE CommitTrades(_, _)
CommitTrades(trades, acc) ==
    IF trades = <<>> THEN acc
    ELSE LET t == Head(trades)
         IN CommitTrades(Tail(trades),
              [acc EXCEPT !.trades = Append(@, t),
                          !.balances = apply_trade_balances(@, t.buyer_id,
                                          t.seller_id, t.price, t.quantity),
                          !.published = Append(@, TradeEvent(t))])

(* the commit branches of handle_bulk_operations, lines 1351-1396 *)
CommitCreate(result, acc) ==
    CommitTrades(result.trades,
        IF result.order # <<>> /\ result.status = "ACTIVE"
        THEN [acc EXCEPT !.orders = Append(@, result.order[1]),
                         !.published = Append(@, BookEvent(result.order_id, "ADD"))]
        ELSE acc)

CommitModify(result, acc) ==
    LET target == [acc.orders[result.order_id] EXCEPT
                     !.price = result.new_price,
                     !.quantity = result.new_quantity,
                     !.status = result.status,
                     !.created_at = IF result.created_at = <<>> THEN @
                                    ELSE result.created_at[1]]
    IN CommitTrades(result.trades,
         [acc EXCEPT !.orders[result.order_id] = target,
                     !.published = Append(@, BookEvent(result.order_id,
                                               IF target.status = "ACTIVE"
                                               THEN "MODIFY" ELSE "REMOVE"))])

CommitCancel(result, acc) ==
    [acc EXCEPT !.orders[result.order_id] =
                    [@ EXCEPT !.status = "CANCELLED", !.quantity = 0],
                !.published = Append(@, BookEvent(result.order_id, "REMOVE"))]

RECURSIVE Commit(_, _)
Commit(staged_ops, acc) ==
    IF staged_ops = <<>> THEN acc
    ELSE LET result == Head(staged_ops)
         IN Commit(Tail(staged_ops),
                   IF result.action = "create" THEN CommitCreate(result, acc)
                   ELSE IF result.action = "modify" THEN CommitModify(result, acc)
                   ELSE CommitCancel(result, acc))

(* an abort that replays the results staged before the failing op *)
BulkAbortedAfterReplay(code, staged_ops) ==
    LET done == Commit(staged_ops, StartAcc(V2_ORDERS, 0))
    IN Outcome(done.orders, done.trades, done.balances,
               [Reply("bulk", code) EXCEPT !.staged = Len(staged_ops)], 0,
               done.published)

(* what handle_bulk_operations leaves when the simulation stops at a failing op *)
BulkAborted(code, staged_ops) ==
    Outcome(V2_ORDERS, TRADES, BALANCES,
            [Reply("bulk", code) EXCEPT !.staged = Len(staged_ops)], 0, <<>>)

(* the commit half of handle_bulk_operations, lines 1350-1408 *)
BulkReplayed(staged_ops, done) ==
    Outcome(done.orders, done.trades, done.balances,
            [Reply("bulk", 200) EXCEPT !.staged = Len(staged_ops)], 0,
            done.published)

BulkSimulated(sim) ==
    IF ~sim.ok THEN BulkAborted(sim.status, sim.staged)
    ELSE BulkReplayed(sim.staged, Commit(sim.staged, StartAcc(V2_ORDERS, 0)))

(* Handler.handle_bulk_operations *)
handle_bulk_operations(contracts) ==
    IF contracts = <<>> THEN Rejected("bulk", 400)
    ELSE BulkSimulated(SimulateContracts(contracts, <<>>))

--------------------------------------------------------------------------
(* src/checker.py, simulate: chk is the state of its loop after the events *)
(* replayed so far, [bids, asks, expected_trades].  Every event gets a     *)
(* larger seq than all before it and sort_books orders a side by price and *)
(* then timestamp, so a book is kept as the sorted list itself and the     *)
(* order just stamped with seq goes behind every entry of equal or better  *)
(* price.  order_id 0 stands for an id that no later event names.          *)

ChkOrder(order_id, side, price, quantity, user_id) ==
    [order_id |-> order_id, side |-> side, price |-> price,
     quantity |-> quantity, user_id |-> user_id]

ChkEvent(type, order_id, side, price, quantity, user_id) ==
    [type |-> type, order_id |-> order_id, side |-> side, price |-> price,
     quantity |-> quantity, user_id |-> user_id]

ChkInit == [bids |-> <<>>, asks |-> <<>>, expected_trades |-> <<>>]

chk_crosses(side, price, resting_price) ==
    (side = "buy" /\ price >= resting_price)
    \/ (side = "sell" /\ price <= resting_price)

book_opp(c, side) == IF side = "buy" THEN c.asks ELSE c.bids
book_own(c, side) == IF side = "buy" THEN c.bids ELSE c.asks

SetOpp(c, side, book) ==
    IF side = "buy" THEN [c EXCEPT !.asks = book] ELSE [c EXCEPT !.bids = book]
SetOwn(c, side, book) ==
    IF side = "buy" THEN [c EXCEPT !.bids = book] ELSE [c EXCEPT !.asks = book]

(* book_own.append(order); sort_books() for an order holding the newest seq *)
sort_books(book, o) ==
    LET ahead == {i \in DOMAIN book :
                    IF o.side = "buy" THEN book[i].price >= o.price
                    ELSE book[i].price <= o.price}
        n == Cardinality(ahead)
    IN SubSeq(book, 1, n) \o <<o>> \o SubSeq(book, n + 1, Len(book))

(* simulate.match_new_order *)
RECURSIVE match_new_order(_, _)
match_new_order(c, order) ==
    LET opp == book_opp(c, order.side)
        rested == IF order.quantity > 0
                  THEN SetOwn(c, order.side,
                              sort_books(book_own(c, order.side), order))
                  ELSE c
    IN IF order.quantity <= 0 \/ opp = <<>> THEN rested
       ELSE LET best == Head(opp)
                qty == Min(order.quantity, best.quantity)
                left == [best EXCEPT !.quantity = @ - qty]
                opp2 == IF left.quantity = 0 THEN Tail(opp)
                        ELSE <<left>> \o Tail(opp)
            IN IF best.quantity <= 0
               THEN match_new_order(SetOpp(c, order.side, Tail(opp)), order)
               ELSE IF ~chk_crosses(order.side, order.price, best.price)
               THEN rested
               ELSE match_new_order(
                      [SetOpp(c, order.side, opp2) EXCEPT
                         !.expected_trades = Append(@, <<best.price, qty>>)],
                      [order EXCEPT !.quantity = @ - qty])

(* the self-trade protection loops of simulate (NEW: lines 230-245, MODIFY: *)
(* lines 275-292, where oid is skipped)                                     *)
self_blocked(c, side, price, user_id, oid) ==
    \E i \in DOMAIN book_opp(c, side) :
        LET resting == book_opp(c, side)[i]
        IN /\ resting.quantity > 0
           /\ (oid = 0 \/ resting.order_id # oid)
           /\ chk_crosses(side, price, resting.price)
           /\ resting.user_id = user_id

(* orders_by_id.get(oid) for an order still active: its place in the books *)
ChkFind(c, oid) ==
    {p \in Sides \X (1 .. (Len(c.bids) + Len(c.asks))) :
        /\ p[2] \in DOMAIN book_own(c, p[1])
        /\ book_own(c, p[1])[p[2]].order_id = oid}

ChkRemove(book, i) == SubSeq(book, 1, i - 1) \o SubSeq(book, i + 1, Len(book))

chk_new(c, ev) ==
    IF ev.quantity <= 0 THEN c
    ELSE IF self_blocked(c, ev.side, ev.price, ev.user_id, 0) THEN c
    ELSE match_new_order(c, ChkOrder(ev.order_id, ev.side, ev.price,
                                     ev.quantity, ev.user_id))

chk_modify(c, ev) ==
    LET found == ChkFind(c, ev.order_id)
        p == CHOOSE x \in found : TRUE
        o == book_own(c, p[1])[p[2]]
        removed == SetOwn(c, o.side, ChkRemove(book_own(c, o.side), p[2]))
    IN IF found = {} THEN c
       ELSE IF ev.quantity <= 0 THEN c
       ELSE IF self_blocked(c, o.side, ev.price, o.user_id, ev.order_id) THEN c
       ELSE match_new_order(removed,
                            [o EXCEPT !.price = ev.price,
                                      !.quantity = ev.quantity])

chk_cancel(c, ev) ==
    LET found == ChkFind(c, ev.order_id)
        p == CHOOSE x \in found : TRUE
    IN IF found = {} THEN c
       ELSE SetOwn(c, p[1], ChkRemove(book_own(c, p[1]), p[2]))

(* one round of the loop "for idx, ev in enumerate(events, start=1)" *)
simulate(c, ev) ==
    IF ev.type = "NEW" THEN chk_new(c, ev)
    ELSE IF ev.type = "MODIFY" THEN chk_modify(c, ev)
    ELSE chk_cancel(c, ev)

--------------------------------------------------------------------------
(* Request bodies: the well-formed ones over the input domains and one of  *)
(* each malformed kind                                                     *)

ModifyRequests ==
    [token : Tokens, order_id : OrderIdInputs, price : Prices,
     quantity : Quantities]
    \cup {[token |-> BadToken, order_id |-> 1, price |-> 1, quantity |-> 1],
          [token |-> <<"a", 1>>, order_id |-> 1, price |-> 1, quantity |-> 0]}

CancelRequests ==
    [token : Tokens, order_id : OrderIdInputs]
    \cup {[token |-> BadToken, order_id |-> 1]}

V1SubmitRequests ==
    [token : Tokens, price : {1}, quantity : {1}, contract : {GoodContract}]
    \cup {[token |-> BadToken, price |-> 1, quantity |-> 1,
           contract |-> GoodContract],
          [token |-> <<"a", 1>>, price |-> 1, quantity |-> 0,
           contract |-> GoodContract]}

TakeRequests ==
    [token : Tokens \cup {BadToken}, order_id : 1 .. MaxV1Orders]

CollateralRequests ==
    [admin : BOOLEAN, username : Usernames, collateral : CollateralValues]

BulkOp(type, token, side, price, quantity, execution_type, order_id) ==
    [type |-> type, token |-> token, side |-> side, price |-> price,
     quantity |-> quantity, execution_type |-> execution_type,
     order_id |-> order_id]

BulkCancels(tokens) ==
    {BulkOp("cancel", t, "buy", 0, 0, "GTC", id) :
       t \in tokens, id \in OrderIdInputs}

OpSeqs(ops) == UNION {[1 .. n -> ops] : n \in 1 .. MaxOps}

BulkRequestsOver(ops) ==
    {<<[contract |-> GoodContract, operations |-> os]>> : os \in OpSeqs(ops)}
    \cup {<<[contract |-> BadContract,
             operations |-> <<BulkOp("cancel", <<"a", 1>>, "buy", 0, 0, "GTC", 1)>>]>>}

--------------------------------------------------------------------------
(* Actions *)

(* The event bus: TRADE_STREAM_CLIENTS and ORDER_BOOK_STREAM_CLIENTS are   *)
(* lists of sockets, EXECUTION_REPORT_CLIENTS holds one list per user (a   *)
(* user without an entry has the empty list).  A socket is "free" before   *)
(* its handshake, "open" while its peer reads, "broken" once the peer is   *)
(* gone, when sendall raises, and "closed" after sock.close().             *)

NoThread == [pc |-> "idle"]
NoSocket == [state |-> "free", frames |-> <<>>, username |-> None]

Bus ==
    [trades |-> TRADE_STREAM_CLIENTS, order_book |-> ORDER_BOOK_STREAM_CLIENTS,
     execution_reports |-> EXECUTION_REPORT_CLIENTS, sockets |-> SOCKETS]

(* the list a broadcast of e iterates over *)
Clients(bus, e) ==
    IF e.topic = "trades" THEN bus.trades
    ELSE IF e.topic = "order_book" THEN bus.order_book
    ELSE bus.execution_reports[e.owner]

(* clients.remove(sock) *)
Remove(clients, sock) == SelectSeq(clients, LAMBDA c : c # sock)

Removed(bus, e, sock) ==
    IF e.topic = "trades" THEN [bus EXCEPT !.trades = Remove(@, sock)]
    ELSE IF e.topic = "order_book" THEN [bus EXCEPT !.order_book = Remove(@, sock)]
    ELSE [bus EXCEPT !.execution_reports[e.owner] = Remove(@, sock)]

(* every client of the stream is dropped when one sendall raises *)
SendToDropsEveryone(bus, e, sock) ==
    IF bus.sockets[sock].state = "open"
    THEN [bus EXCEPT !.sockets[sock].frames = Append(@, e)]
    ELSE IF e.topic = "trades" THEN [bus EXCEPT !.trades = <<>>]
    ELSE IF e.topic = "order_book" THEN [bus EXCEPT !.order_book = <<>>]
    ELSE [bus EXCEPT !.execution_reports[e.owner] = <<>>]

(* one round of "for sock in list(clients)": sock.sendall(frame), and the  *)
(* removal of the socket when sendall raises                               *)
SendTo(bus, e, sock) ==
    IF bus.sockets[sock].state = "open"
    THEN [bus EXCEPT !.sockets[sock].frames = Append(@, e)]
    ELSE Removed(bus, e, sock)

RECURSIVE SendAll(_, _, _)
SendAll(socks, e, bus) ==
    IF socks = <<>> THEN bus
    ELSE SendAll(Tail(socks), e, SendTo(bus, e, Head(socks)))

(* Handler._broadcast_trade, _broadcast_order_book_change and              *)
(* _broadcast_execution_report_for_order                                   *)
broadcast(bus, e) == SendAll(Clients(bus, e), e, bus)

RECURSIVE Publish(_, _)
Publish(events, bus) ==
    IF events = <<>> THEN bus
    ELSE Publish(Tail(events), broadcast(bus, Head(events)))

Delivered(bus) ==
    /\ \A sock \in DOMAIN bus.sockets : Len(bus.sockets[sock].frames) <= MaxFrames
    /\ TRADE_STREAM_CLIENTS' = bus.trades
    /\ ORDER_BOOK_STREAM_CLIENTS' = bus.order_book
    /\ EXECUTION_REPORT_CLIENTS' = bus.execution_reports
    /\ SOCKETS' = bus.sockets

(* the writes of a handler that runs undisturbed: its tables, its answer  *)
(* and, in their order, the frames of its broadcasts                       *)
Apply(out) ==
    /\ Len(out.orders) <= MaxOrders
    /\ Len(out.trades) <= MaxTrades
    /\ V2_ORDERS' = out.orders
    /\ TRADES' = out.trades
    /\ BALANCES' = out.balances
    /\ response' = out.response
    /\ Delivered(Publish(out.published, Bus))

(* Handler.handle_register *)
Register(username, password) ==
    /\ IF USERS[username] # None
       THEN /\ response' = Reply("register", 409)
            /\ UNCHANGED USERS
       ELSE /\ USERS' = [USERS EXCEPT ![username] = password]
            /\ response' = Reply("register", 204)
    /\ UNCHANGED <<TOKENS, ORDERS, V2_ORDERS, TRADES, BALANCES, COLLATERAL, now,
                   chk, dnas, ISSUED, THREADS, streams>>

(* handle_login, lines 1093-1096: token = uuid.uuid4().hex is the next     *)
(* serial number of the user, out of the supply of the run                 *)
IssueToken(username, supply) ==
    /\ \E k \in 1 .. supply :
          /\ <<username, k>> \notin ISSUED
          /\ \A j \in 1 .. (k - 1) : <<username, j>> \in ISSUED
          /\ TOKENS' = TOKENS \cup {<<username, k>>}
          /\ ISSUED' = ISSUED \cup {<<username, k>>}
    /\ response' = Reply("login", 200)

(* Handler.handle_login *)
Login(username, password) ==
    /\ IF USERS[username] # password
       THEN /\ response' = Reply("login", 401)
            /\ UNCHANGED <<TOKENS, ISSUED>>
       ELSE IssueToken(username, MaxTokens)
    /\ UNCHANGED <<USERS, ORDERS, V2_ORDERS, TRADES, BALANCES, COLLATERAL, now,
                   chk, dnas, THREADS, streams>>

(* handle_login up to the password check of lines 1089-1091, served by     *)
(* thread th; username and password are the handler's local variables     *)
LoginCheck(th, username, password) ==
    /\ THREADS[th] = NoThread
    /\ IF USERS[username] # password
       THEN /\ response' = Reply("login", 401)
            /\ UNCHANGED THREADS
       ELSE /\ THREADS' = [THREADS EXCEPT ![th] =
                             [pc |-> "login", username |-> username,
                              password |-> password]]
            /\ UNCHANGED response
    /\ UNCHANGED <<USERS, TOKENS, ISSUED, ORDERS, V2_ORDERS, TRADES, BALANCES,
                   COLLATERAL, now, chk, dnas, streams>>

(* handle_login from line 1093 on, by the thread that passed the check *)
LoginIssue(th) ==
    /\ THREADS[th].pc = "login"
    /\ IssueToken(THREADS[th].username, MaxLogins)
    /\ THREADS' = [THREADS EXCEPT ![th] = NoThread]
    /\ UNCHANGED <<USERS, ORDERS, V2_ORDERS, TRADES, BALANCES, COLLATERAL, now,
                   chk, dnas, streams>>

(* a password change that leaves the tokens alone *)
ChangePasswordKeepsTokens(username, old_password, new_password) ==
    /\ IF USERS[username] = None \/ USERS[username] # old_password
       THEN /\ response' = Reply("change_password", 401)
            /\ UNCHANGED <<USERS, TOKENS>>
       ELSE /\ USERS' = [USERS EXCEPT ![username] = new_password]
            /\ UNCHANGED TOKENS
            /\ response' = Reply("change_password", 204)
    /\ UNCHANGED <<ISSUED, ORDERS, V2_ORDERS, TRADES, BALANCES, COLLATERAL, now,
                   chk, dnas, THREADS, streams>>

(* Handler.handle_change_password *)
ChangePassword(username, old_password, new_password) ==
    /\ IF USERS[username] = None \/ USERS[username] # old_password
       THEN /\ response' = Reply("change_password", 401)
            /\ UNCHANGED <<USERS, TOKENS>>
       ELSE /\ USERS' = [USERS EXCEPT ![username] = new_password]
            /\ TOKENS' = {t \in TOKENS : t[1] # username}
            /\ response' = Reply("change_password", 204)
    /\ UNCHANGED <<ISSUED, ORDERS, V2_ORDERS, TRADES, BALANCES, COLLATERAL, now,
                   chk, dnas, THREADS, streams>>

(* the clock read by int(time.time() * 1000) moves forward between requests *)
Tick ==
    /\ \E t \in Times : t > now /\ now' = t
    /\ UNCHANGED <<USERS, TOKENS, ORDERS, V2_ORDERS, TRADES, BALANCES, COLLATERAL,
                   response, chk, dnas, ISSUED, THREADS, streams>>

SubmitResult(r) ==
    handle_submit_order_v2(r.token, r.side, r.price, r.quantity, r.contract[1],
                           r.contract[2], r.execution_type)

ModifyResult(r) == handle_modify_order(r.token, r.order_id, r.price, r.quantity)

CancelResult(r) == handle_cancel_order(r.token, r.order_id)

SubmitOrderV2(r) ==
    /\ Apply(SubmitResult(r))
    /\ UNCHANGED <<USERS, TOKENS, ORDERS, COLLATERAL, now, chk, dnas, ISSUED, THREADS>>

ModifyOrder(r) ==
    /\ Apply(ModifyResult(r))
    /\ UNCHANGED <<USERS, TOKENS, ORDERS, COLLATERAL, now, chk, dnas, ISSUED, THREADS>>

CancelOrder(r) ==
    /\ Apply(CancelResult(r))
    /\ UNCHANGED <<USERS, TOKENS, ORDERS, COLLATERAL, now, chk, dnas, ISSUED, THREADS>>

BulkOperations(contracts) ==
    /\ Apply(handle_bulk_operations(contracts))
    /\ UNCHANGED <<USERS, TOKENS, ORDERS, COLLATERAL, now, chk, dnas, ISSUED, THREADS>>

--------------------------------------------------------------------------
(* handle_submit_order_v2 served by thread th, in the steps between which  *)
(* another thread can run.  THREADS[th] holds the handler's locals: the    *)
(* request r, the candidates not yet visited, remaining, filled_quantity,  *)
(* the trade under way and the sockets its broadcast has yet to write to.  *)
(* The "continue" rounds of the matching loop are taken together with the  *)
(* round that follows them.                                                *)

(* the candidates from the first one the loop does not skip *)
RECURSIVE SkipDead(_)
SkipDead(cands) ==
    IF cands = <<>> THEN cands
    ELSE IF V2_ORDERS[Head(cands)].status # "ACTIVE"
            \/ V2_ORDERS[Head(cands)].quantity <= 0
    THEN SkipDead(Tail(cands))
    ELSE cands

(* lines 1618-1734: authentication, validation, window, collateral, the    *)
(* selection of the candidates, the self-match check and the FOK pre-check *)
SubmitSelect(th, r) ==
    LET out == SubmitResult(r)
        cands == Candidates(V2_ORDERS, r.side, r.price, r.contract[1], 0)
    IN /\ THREADS[th] = NoThread
       /\ IF \/ out.response.code # 200
             \/ r.execution_type = "FOK" /\ FOKCancels(V2_ORDERS, cands, r.quantity)
          THEN Apply(out) /\ UNCHANGED THREADS
          ELSE /\ THREADS' = [THREADS EXCEPT ![th] =
                                [pc |-> "match", r |-> r, cands |-> cands,
                                 remaining |-> r.quantity, filled |-> 0]]
               /\ UNCHANGED <<V2_ORDERS, TRADES, BALANCES, response, streams>>
       /\ UNCHANGED <<USERS, TOKENS, ISSUED, ORDERS, COLLATERAL, now, chk, dnas>>

(* lines 1736-1771 of one round of the loop: the trade is built, appended  *)
(* to TRADES and applied to the balances; _broadcast_trade has copied the  *)
(* list of clients                                                         *)
SubmitTrade(th) ==
    LET t == THREADS[th]
        live == SkipDead(t.cands)
        resting == V2_ORDERS[Head(live)]
        trade_qty == TradeQty(t.remaining, resting.quantity)
        trade == MakeTrade(t.r.token[1], t.r.side, resting, Head(live),
                           TradePrice(resting.price, t.r.price), trade_qty,
                           t.r.contract[1])
    IN /\ t.pc = "match"
       /\ t.remaining > 0 /\ live # <<>>
       /\ Len(TRADES) < MaxTrades
       /\ TRADES' = Append(TRADES, trade)
       /\ BALANCES' = apply_trade_balances(BALANCES, trade.buyer_id,
                                           trade.seller_id, trade.price,
                                           trade.quantity)
       /\ THREADS' = [THREADS EXCEPT ![th] =
                        [pc |-> "send", r |-> t.r, cands |-> live,
                         remaining |-> t.remaining, filled |-> t.filled,
                         trade |-> trade, socks |-> TRADE_STREAM_CLIENTS]]
       /\ UNCHANGED <<USERS, TOKENS, ISSUED, ORDERS, V2_ORDERS, COLLATERAL, now,
                      chk, dnas, response, streams>>

(* one round of the loop of _broadcast_trade, lines 218-225 *)
SubmitSend(th) ==
    LET t == THREADS[th]
    IN /\ t.pc = "send" /\ t.socks # <<>>
       /\ Delivered(SendTo(Bus, TradeEvent(t.trade), Head(t.socks)))
       /\ THREADS' = [THREADS EXCEPT ![th].socks = Tail(@)]
       /\ UNCHANGED <<USERS, TOKENS, ISSUED, ORDERS, V2_ORDERS, TRADES, BALANCES,
                      COLLATERAL, now, chk, dnas, response>>

(* lines 1774-1785: the rest of the round, after the broadcast of the trade *)
SubmitHit(th) ==
    LET t == THREADS[th]
        i == Head(t.cands)
        hit == HitResting(V2_ORDERS[i], t.trade.quantity)
    IN /\ t.pc = "send" /\ t.socks = <<>>
       /\ V2_ORDERS' = [V2_ORDERS EXCEPT ![i] = hit]
       /\ Delivered(Publish(<<BookEvent(i, IF hit.status = "FILLED"
                                           THEN "REMOVE" ELSE "MODIFY"),
                              ReportEvent(i, hit.owner, hit.status)>>, Bus))
       /\ THREADS' = [THREADS EXCEPT ![th] =
                        [pc |-> "match", r |-> t.r, cands |-> Tail(t.cands),
                         remaining |-> t.remaining - t.trade.quantity,
                         filled |-> t.filled + t.trade.quantity]]
       /\ UNCHANGED <<USERS, TOKENS, ISSUED, ORDERS, TRADES, BALANCES, COLLATERAL,
                      now, chk, dnas, response>>

(* lines 1787-1828: the loop has ended; the order rests or not, the        *)
(* execution report and the answer                                         *)
SubmitFinish(th) ==
    LET t == THREADS[th]
        order_id == Len(V2_ORDERS) + 1
        status == SubmitStatus(t.r.execution_type, t.remaining)
        rests == t.r.execution_type = "GTC" /\ t.remaining > 0
        new_order == NewOrder(order_id, t.r.side, t.r.token[1], t.r.price,
                              t.remaining, t.r.contract[1], t.r.quantity)
    IN /\ t.pc = "match"
       /\ t.remaining <= 0 \/ SkipDead(t.cands) = <<>>
       /\ rests => Len(V2_ORDERS) < MaxOrders
       /\ V2_ORDERS' = IF rests THEN Append(V2_ORDERS, new_order) ELSE V2_ORDERS
       /\ Delivered(Publish((IF rests THEN <<BookEvent(order_id, "ADD")>>
                             ELSE <<>>)
                            \o <<ReportEvent(order_id, t.r.token[1], status)>>,
                            Bus))
       /\ response' = ReplyOrder("submit", status, t.r.execution_type)
       /\ THREADS' = [THREADS EXCEPT ![th] = NoThread]
       /\ UNCHANGED <<USERS, TOKENS, ISSUED, ORDERS, TRADES, BALANCES, COLLATERAL,
                      now, chk, dnas>>

(* The same round of the loop in the statements between which the        *)
(* interpreter may switch to another thread.                               *)
(* lines 1737-1769: the order at the head of the candidates is tested for  *)
(* status and quantity, and the trade is built from what was read          *)
SubmitPick(th) ==
    LET t == THREADS[th]
        live == SkipDead(t.cands)
        resting == V2_ORDERS[Head(live)]
        trade_qty == TradeQty(t.remaining, resting.quantity)
        trade == MakeTrade(t.r.token[1], t.r.side, resting, Head(live),
                           TradePrice(resting.price, t.r.price), trade_qty,
                           t.r.contract[1])
    IN /\ t.pc = "match"
       /\ t.remaining > 0 /\ live # <<>>
       /\ THREADS' = [THREADS EXCEPT ![th] =
                        [pc |-> "append", r |-> t.r, cands |-> live,
                         remaining |-> t.remaining, filled |-> t.filled,
                         trade |-> trade]]
       /\ UNCHANGED <<USERS, TOKENS, ISSUED, ORDERS, V2_ORDERS, TRADES, BALANCES,
                      COLLATERAL, now, chk, dnas, response, streams>>

(* line 1770: TRADES.append(trade) *)
SubmitAppend(th) ==
    LET t == THREADS[th]
    IN /\ t.pc = "append"
       /\ Len(TRADES) < MaxTrades
       /\ TRADES' = Append(TRADES, t.trade)
       /\ THREADS' = [THREADS EXCEPT ![th] =
                        [pc |-> "debit", r |-> t.r, cands |-> t.cands,
                         remaining |-> t.remaining, filled |-> t.filled,
                         trade |-> t.trade]]
       /\ UNCHANGED <<USERS, TOKENS, ISSUED, ORDERS, V2_ORDERS, BALANCES,
                      COLLATERAL, now, chk, dnas, response, streams>>

(* Handler._apply_trade_balances, the right-hand sides of lines 80 and 81: *)
(* BALANCES.get(buyer_id, 0), then BALANCES.get(seller_id, 0)              *)
BalanceGet(th) ==
    LET t == THREADS[th]
        who == IF t.pc = "debit" THEN t.trade.buyer_id ELSE t.trade.seller_id
    IN /\ t.pc \in {"debit", "credit"}
       /\ THREADS' = [THREADS EXCEPT ![th] =
                        [pc |-> IF t.pc = "debit" THEN "debit_set" ELSE "credit_set",
                         r |-> t.r, cands |-> t.cands,
                         remaining |-> t.remaining, filled |-> t.filled,
                         trade |-> t.trade, got |-> BALANCES[who]]]
       /\ UNCHANGED <<USERS, TOKENS, ISSUED, ORDERS, V2_ORDERS, TRADES, BALANCES,
                      COLLATERAL, now, chk, dnas, response, streams>>

(* Handler._apply_trade_balances, the stores of lines 80 and 81; after the *)
(* second one _broadcast_trade copies the list of clients (line 1772)      *)
BalanceSet(th) ==
    LET t == THREADS[th]
        amount == t.trade.price * t.trade.quantity
    IN /\ t.pc \in {"debit_set", "credit_set"}
       /\ BALANCES' = IF t.pc = "debit_set"
                      THEN [BALANCES EXCEPT ![t.trade.buyer_id] = t.got - amount]
                      ELSE [BALANCES EXCEPT ![t.trade.seller_id] = t.got + amount]
       /\ THREADS' = [THREADS EXCEPT ![th] =
                        IF t.pc = "debit_set"
                        THEN [pc |-> "credit", r |-> t.r, cands |-> t.cands,
                              remaining |-> t.remaining, filled |-> t.filled,
                              trade |-> t.trade]
                        ELSE [pc |-> "send", r |-> t.r, cands |-> t.cands,
                              remaining |-> t.remaining, filled |-> t.filled,
                              trade |-> t.trade, socks |-> TRADE_STREAM_CLIENTS]]
       /\ UNCHANGED <<USERS, TOKENS, ISSUED, ORDERS, V2_ORDERS, TRADES,
                      COLLATERAL, now, chk, dnas, response, streams>>

(* an attach that registers the socket under "a" when its token is unknown *)
AttachExecutionReportsOfAnyone(sock, token) ==
    LET username == IF token \in TOKENS THEN token[1] ELSE "a"
    IN /\ SOCKETS[sock].state = "free"
       /\ SOCKETS' = [SOCKETS EXCEPT ![sock].state = "open"]
       /\ EXECUTION_REPORT_CLIENTS' =
             [EXECUTION_REPORT_CLIENTS EXCEPT ![username] = Append(@, sock)]
       /\ UNCHANGED <<USERS, TOKENS, ISSUED, ORDERS, V2_ORDERS, TRADES, BALANCES,
                      COLLATERAL, now, chk, dnas, response, THREADS,
                      TRADE_STREAM_CLIENTS, ORDER_BOOK_STREAM_CLIENTS>>

(* Handler.handle_execution_reports_stream up to its recv loop; username   *)
(* stays with the thread that serves the socket                            *)
AttachExecutionReports(sock, token) ==
    LET username == IF token \in TOKENS THEN token[1] ELSE None
    IN /\ SOCKETS[sock].state = "free"
       /\ IF username = None
          THEN /\ SOCKETS' = [SOCKETS EXCEPT ![sock].state = "closed"]
               /\ UNCHANGED EXECUTION_REPORT_CLIENTS
          ELSE /\ SOCKETS' = [SOCKETS EXCEPT ![sock].state = "open",
                                             ![sock].username = username]
               /\ EXECUTION_REPORT_CLIENTS' =
                     [EXECUTION_REPORT_CLIENTS EXCEPT ![username] = Append(@, sock)]
       /\ UNCHANGED <<USERS, TOKENS, ISSUED, ORDERS, V2_ORDERS, TRADES, BALANCES,
                      COLLATERAL, now, chk, dnas, response, THREADS,
                      TRADE_STREAM_CLIENTS, ORDER_BOOK_STREAM_CLIENTS>>

(* Handler.handle_order_book_stream up to its recv loop *)
AttachOrderBookStream(sock) ==
    /\ SOCKETS[sock].state = "free"
    /\ SOCKETS' = [SOCKETS EXCEPT ![sock].state = "open"]
    /\ ORDER_BOOK_STREAM_CLIENTS' = Append(ORDER_BOOK_STREAM_CLIENTS, sock)
    /\ UNCHANGED <<USERS, TOKENS, ISSUED, ORDERS, V2_ORDERS, TRADES, BALANCES,
                   COLLATERAL, now, chk, dnas, response, THREADS,
                   TRADE_STREAM_CLIENTS, EXECUTION_REPORT_CLIENTS>>

(* the peer of an attached socket goes away: from now on sendall raises *)
SocketBreaks(sock) ==
    /\ SOCKETS[sock].state = "open"
    /\ SOCKETS' = [SOCKETS EXCEPT ![sock].state = "broken"]
    /\ UNCHANGED <<USERS, TOKENS, ISSUED, ORDERS, V2_ORDERS, TRADES, BALANCES,
                   COLLATERAL, now, chk, dnas, response, THREADS,
                   TRADE_STREAM_CLIENTS, ORDER_BOOK_STREAM_CLIENTS,
                   EXECUTION_REPORT_CLIENTS>>

(* the recv loop of a stream handler ends: the finally clause removes the  *)
(* socket from its list and closes it                                      *)
Detach(sock) ==
    /\ SOCKETS[sock].state = "broken"
    /\ SOCKETS' = [SOCKETS EXCEPT ![sock].state = "closed"]
    /\ TRADE_STREAM_CLIENTS' = Remove(TRADE_STREAM_CLIENTS, sock)
    /\ ORDER_BOOK_STREAM_CLIENTS' = Remove(ORDER_BOOK_STREAM_CLIENTS, sock)
    /\ EXECUTION_REPORT_CLIENTS' =
          [u \in Usernames |-> Remove(EXECUTION_REPORT_CLIENTS[u], sock)]
    /\ UNCHANGED <<USERS, TOKENS, ISSUED, ORDERS, V2_ORDERS, TRADES, BALANCES,
                   COLLATERAL, now, chk, dnas, response, THREADS>>

(* Handler.handle_v2_order_book: the status and the two sides of the body  *)
(* the book is listed whatever the time *)
OrderBookAnyTime(delivery_start, delivery_end) ==
    LET mine(side) == {i \in DOMAIN V2_ORDERS :
                         /\ V2_ORDERS[i].status = "ACTIVE"
                         /\ V2_ORDERS[i].quantity > 0
                         /\ V2_ORDERS[i].delivery_start = delivery_start
                         /\ V2_ORDERS[i].side = side}
        entry(i) == [order_id |-> V2_ORDERS[i].order_id,
                     price |-> V2_ORDERS[i].price,
                     quantity |-> V2_ORDERS[i].quantity]
        bids == SortCandidates(V2_ORDERS, mine("buy"), "sell")
        asks == SortCandidates(V2_ORDERS, mine("sell"), "buy")
    IN IF ~ValidContract(delivery_start, delivery_end)
       THEN [code |-> 400, bids |-> <<>>, asks |-> <<>>]
       ELSE [code |-> 200, bids |-> [k \in DOMAIN bids |-> entry(bids[k])],
             asks |-> [k \in DOMAIN asks |-> entry(asks[k])]]

handle_v2_order_book(delivery_start, delivery_end) ==
    LET mine(side) == {i \in DOMAIN V2_ORDERS :
                         /\ V2_ORDERS[i].status = "ACTIVE"
                         /\ V2_ORDERS[i].quantity > 0
                         /\ V2_ORDERS[i].delivery_start = delivery_start
                         /\ V2_ORDERS[i].side = side}
        entry(i) == [order_id |-> V2_ORDERS[i].order_id,
                     price |-> V2_ORDERS[i].price,
                     quantity |-> V2_ORDERS[i].quantity]
        bids == SortCandidates(V2_ORDERS, mine("buy"), "sell")
        asks == SortCandidates(V2_ORDERS, mine("sell"), "buy")
    IN IF ~ValidContract(delivery_start, delivery_end)
       THEN [code |-> 400, bids |-> <<>>, asks |-> <<>>]
       ELSE IF ~(delivery_start - OPEN_MS <= now /\ now <= delivery_start - CLOSE_MS)
       THEN [code |-> 200, bids |-> <<>>, asks |-> <<>>]
       ELSE [code |-> 200, bids |-> [k \in DOMAIN bids |-> entry(bids[k])],
             asks |-> [k \in DOMAIN asks |-> entry(asks[k])]]

(* GET /v2/order-book: the answer carries the number of bids and asks *)
ReadOrderBook(contract) ==
    LET body == handle_v2_order_book(contract[1], contract[2])
    IN /\ response' = [Reply("order_book", body.code) EXCEPT
                         !.staged = Len(body.bids) + Len(body.asks)]
       /\ UNCHANGED <<USERS, TOKENS, ISSUED, ORDERS, V2_ORDERS, TRADES, BALANCES,
                      COLLATERAL, now, chk, dnas, THREADS, streams>>

(* Handler.handle_trade_stream up to its recv loop: the handshake and      *)
(* TRADE_STREAM_CLIENTS.append(sock)                                       *)
AttachTradeStream(sock) ==
    /\ SOCKETS[sock].state = "free"
    /\ SOCKETS' = [SOCKETS EXCEPT ![sock].state = "open"]
    /\ TRADE_STREAM_CLIENTS' = Append(TRADE_STREAM_CLIENTS, sock)
    /\ UNCHANGED <<USERS, TOKENS, ISSUED, ORDERS, V2_ORDERS, TRADES, BALANCES,
                   COLLATERAL, now, chk, dnas, response, THREADS,
                   ORDER_BOOK_STREAM_CLIENTS, EXECUTION_REPORT_CLIENTS>>

(* Handler.handle_submit_order (V1) *)
SubmitOrderV1(r) ==
    LET username == get_authenticated_user(r.token)
    IN /\ IF username = None
          THEN response' = Reply("v1submit", 401) /\ UNCHANGED ORDERS
          ELSE IF r.quantity <= 0
                  \/ r.contract[1] % HOUR_MS # 0 \/ r.contract[2] % HOUR_MS # 0
                  \/ r.contract[2] - r.contract[1] # HOUR_MS
          THEN response' = Reply("v1submit", 400) /\ UNCHANGED ORDERS
          ELSE /\ Len(ORDERS) < MaxV1Orders
               /\ ORDERS' = Append(ORDERS,
                     [order_id |-> Len(ORDERS) + 1, seller_id |-> username,
                      price |-> r.price, quantity |-> r.quantity,
                      delivery_start |-> r.contract[1], active |-> TRUE])
               /\ response' = Reply("v1submit", 200)
       /\ UNCHANGED <<USERS, TOKENS, V2_ORDERS, TRADES, BALANCES, COLLATERAL, now,
                      chk, dnas, ISSUED, THREADS, streams>>

V1Trade(username, order) ==
    [buyer_id |-> username, seller_id |-> order.seller_id, price |-> order.price,
     quantity |-> order.quantity, delivery_start |-> order.delivery_start,
     source |-> "v1", resting |-> 0]

(* Handler.handle_take_order (V1) *)
TakeOrder(r) ==
    LET username == get_authenticated_user(r.token)
        found == r.order_id \in DOMAIN ORDERS /\ ORDERS[r.order_id].active
        order == ORDERS[r.order_id]
    IN /\ IF username = None
          THEN /\ response' = Reply("take", 401)
               /\ UNCHANGED <<ORDERS, TRADES, BALANCES>>
          ELSE IF ~found
          THEN /\ response' = Reply("take", 404)
               /\ UNCHANGED <<ORDERS, TRADES, BALANCES>>
          ELSE /\ Len(TRADES) < MaxTrades
               /\ ORDERS' = [ORDERS EXCEPT ![r.order_id].active = FALSE]
               /\ TRADES' = Append(TRADES, V1Trade(username, order))
               /\ BALANCES' = apply_trade_balances(BALANCES, username,
                                 order.seller_id, order.price, order.quantity)
               /\ response' = Reply("take", 200)
       /\ UNCHANGED <<USERS, TOKENS, V2_ORDERS, COLLATERAL, now, chk, dnas, ISSUED,
                      THREADS, streams>>

(* Handler.handle_set_collateral; r.admin: the bearer is "password123" *)
SetCollateral(r) ==
    /\ IF ~r.admin
       THEN response' = Reply("collateral", 401) /\ UNCHANGED COLLATERAL
       ELSE IF USERS[r.username] = None
       THEN response' = Reply("collateral", 404) /\ UNCHANGED COLLATERAL
       ELSE /\ COLLATERAL' = [COLLATERAL EXCEPT ![r.username] = <<r.collateral>>]
            /\ response' = Reply("collateral", 204)
    /\ UNCHANGED <<USERS, TOKENS, ORDERS, V2_ORDERS, TRADES, BALANCES, now, chk, dnas,
                   ISSUED, THREADS, streams>>

--------------------------------------------------------------------------
(* DNA login.  A DNA string is the sequence of its characters.             *)

(* Handler._validate_dna_sample *)
validate_dna_sample(s) ==
    /\ s # <<>>
    /\ Len(s) % 3 = 0
    /\ \A i \in DOMAIN s : s[i] \in {"C", "G", "A", "T"}

(* Handler._split_codons: [dna[i:i+3] for i in range(0, len(dna), 3)] *)
split_codons(s) ==
    [i \in 1 .. ((Len(s) + 2) \div 3) |->
        SubSeq(s, 3 * (i - 1) + 1, Min(3 * i, Len(s)))]

Min3(x, y, z) == Min(x, Min(y, z))

(* the inner loop of codon_edit_distance: curr[j] for j = 1 .. m *)
RECURSIVE full_row(_, _, _, _, _)
full_row(prev, curr, ca, codons_b, j) ==
    IF j > Len(codons_b) THEN curr
    ELSE LET cost == IF ca = codons_b[j] THEN 0 ELSE 1
             v == Min3(prev[j] + 1, curr[j - 1] + 1, prev[j - 1] + cost)
         IN full_row(prev, [curr EXCEPT ![j] = v], ca, codons_b, j + 1)

(* the outer loop of codon_edit_distance, with its two rolling rows *)
RECURSIVE full_rows(_, _, _, _, _)
full_rows(codons_a, codons_b, i, prev, curr) ==
    IF i > Len(codons_a) THEN prev
    ELSE LET row == full_row(prev, [curr EXCEPT ![0] = i], codons_a[i],
                             codons_b, 1)
         IN full_rows(codons_a, codons_b, i + 1, row, prev)

(* src/dna.py, codon_edit_distance *)
codon_edit_distance(a, b) ==
    LET codons_a == split_codons(a)
        codons_b == split_codons(b)
        m == Len(codons_b)
    IN full_rows(codons_a, codons_b, 1, [j \in 0 .. m |-> j],
                 [j \in 0 .. m |-> 0])[m]

(* prev.get(j, max_diff + 1) *)
RowGet(row, j, max_diff) == IF j \in DOMAIN row THEN row[j] ELSE max_diff + 1

(* the inner loop of _codon_edit_distance_bounded: curr[j] for j in the    *)
(* band j_min .. j_max of the row of ref_codon                             *)
RECURSIVE banded_row(_, _, _, _, _, _, _, _)
banded_row(ref_codon, sample_codons, prev, max_diff, j_min, j_max, j, curr) ==
    IF j > j_max THEN curr
    ELSE LET ins == IF j > j_min THEN curr[j - 1] + 1 ELSE max_diff + 1
             dele == RowGet(prev, j, max_diff) + 1
             sub == IF (j - 1) \in DOMAIN prev
                    THEN prev[j - 1]
                         + (IF ref_codon = sample_codons[j] THEN 0 ELSE 1)
                    ELSE max_diff + 1
             v == Min3(ins, dele, sub)
         IN banded_row(ref_codon, sample_codons, prev, max_diff, j_min, j_max,
                       j + 1,
                       [k \in DOMAIN curr \cup {j} |->
                           IF k = j THEN v ELSE curr[k]])

(* the outer loop of _codon_edit_distance_bounded and its return *)
RECURSIVE banded_rows(_, _, _, _, _)
banded_rows(ref_codons, sample_codons, max_diff, i, prev) ==
    IF i > Len(ref_codons)
    THEN RowGet(prev, Len(sample_codons), max_diff)
    ELSE LET j_min == IF i - max_diff > 0 THEN i - max_diff ELSE 0
             j_max == Min(Len(sample_codons), i + max_diff)
             curr == banded_row(ref_codons[i], sample_codons, prev, max_diff,
                                j_min, j_max, j_min, <<>>)
         IN IF \A k \in DOMAIN curr : curr[k] > max_diff
            THEN max_diff + 1
            ELSE banded_rows(ref_codons, sample_codons, max_diff, i + 1, curr)

(* a banded routine whose first row is all zero *)
BoundedFreeFirstRow(ref_codons, sample_codons, max_diff) ==
    LET n == Len(ref_codons)
        m == Len(sample_codons)
    IN IF max_diff < 0 THEN max_diff + 1
       ELSE IF n - m > max_diff \/ m - n > max_diff THEN max_diff + 1
       ELSE IF n = 0 THEN m
       ELSE IF m = 0 THEN n
       ELSE banded_rows(ref_codons, sample_codons, max_diff, 1,
                        [j \in 0 .. Min(m, max_diff) |-> 0])

(* Handler._codon_edit_distance_bounded *)
codon_edit_distance_bounded(ref_codons, sample_codons, max_diff) ==
    LET n == Len(ref_codons)
        m == Len(sample_codons)
    IN IF max_diff < 0 THEN max_diff + 1
       ELSE IF n - m > max_diff \/ m - n > max_diff THEN max_diff + 1
       ELSE IF n = 0 THEN m
       ELSE IF m = 0 THEN n
       ELSE banded_rows(ref_codons, sample_codons, max_diff, 1,
                        [j \in 0 .. Min(m, max_diff) |-> j])

(* the edits _dna_matches allows per reference codon: ref_count // 100000 *)
CODONS_PER_EDIT == 100000

(* Handler._dna_matches *)
dna_matches(reference, submitted) ==
    LET ref_codons == split_codons(reference)
        sub_codons == split_codons(submitted)
        allowed_diff == Len(ref_codons) \div CODONS_PER_EDIT
    IN codon_edit_distance_bounded(ref_codons, sub_codons, allowed_diff)
          <= allowed_diff

(* Handler.handle_dna_submit *)
DnaSubmit(username, password, dna_sample) ==
    /\ IF dna_sample = <<>>
       THEN response' = Reply("dna_submit", 400) /\ UNCHANGED DNA_SAMPLES
       ELSE IF USERS[username] # password
       THEN response' = Reply("dna_submit", 401) /\ UNCHANGED DNA_SAMPLES
       ELSE IF ~validate_dna_sample(dna_sample)
       THEN response' = Reply("dna_submit", 400) /\ UNCHANGED DNA_SAMPLES
       ELSE /\ DNA_SAMPLES' =
                 [DNA_SAMPLES EXCEPT ![username] =
                    IF dna_sample \in Range(@) THEN @
                    ELSE Append(@, dna_sample)]
            /\ response' = Reply("dna_submit", 204)
    /\ UNCHANGED <<USERS, TOKENS, ISSUED, ORDERS, V2_ORDERS, TRADES, BALANCES,
                   COLLATERAL, now, chk, THREADS, streams, dna>>

(* the references of the user that _dna_matches accepts the sample for *)
Matching(username, dna_sample) ==
    {k \in DOMAIN DNA_SAMPLES[username] :
        dna_matches(DNA_SAMPLES[username][k], dna_sample)}

(* Handler.handle_dna_login *)
DnaLogin(username, dna_sample) ==
    /\ IF dna_sample = <<>>
       THEN response' = Reply("dna_login", 400) /\ UNCHANGED <<TOKENS, ISSUED>>
       ELSE IF USERS[username] = None \/ DNA_SAMPLES[username] = <<>>
       THEN response' = Reply("dna_login", 401) /\ UNCHANGED <<TOKENS, ISSUED>>
       ELSE IF ~validate_dna_sample(dna_sample)
       THEN response' = Reply("dna_login", 400) /\ UNCHANGED <<TOKENS, ISSUED>>
       ELSE IF Matching(username, dna_sample) = {}
       THEN response' = Reply("dna_login", 401) /\ UNCHANGED <<TOKENS, ISSUED>>
       ELSE IssueToken(username, MaxLogins)
    /\ UNCHANGED <<USERS, ORDERS, V2_ORDERS, TRADES, BALANCES, COLLATERAL, now,
                   chk, THREADS, streams, dnas>>

(* both distance routines run on the strings at hand *)
Distances ==
    /\ ~dna.measured
    /\ dna' = [dna EXCEPT
                 !.measured = TRUE,
                 !.bounded = codon_edit_distance_bounded(
                                split_codons(dna.reference),
                                split_codons(dna.sample), dna.max_diff),
                 !.full = codon_edit_distance(dna.reference, dna.sample)]
    /\ UNCHANGED <<USERS, TOKENS, ISSUED, ORDERS, V2_ORDERS, TRADES, BALANCES,
                   COLLATERAL, now, response, chk, THREADS, streams,
                   DNA_SAMPLES>>

Init ==
    /\ USERS = [u \in Usernames |-> None]
    /\ TOKENS = {}
    /\ ORDERS = <<>>
    /\ V2_ORDERS = <<>>
    /\ TRADES = <<>>
    /\ BALANCES = [u \in Usernames |-> 0]
    /\ COLLATERAL = [u \in Usernames |-> NoLimit]
    /\ now = DeliveryStart - OPEN_MS - 1
    /\ response = NoResponse
    /\ chk = ChkInit
    /\ ISSUED = {}
    /\ THREADS = [th \in 1 .. MaxThreads |-> NoThread]
    /\ TRADE_STREAM_CLIENTS = <<>>
    /\ ORDER_BOOK_STREAM_CLIENTS = <<>>
    /\ EXECUTION_REPORT_CLIENTS = [u \in Usernames |-> <<>>]
    /\ SOCKETS = [sock \in 1 .. MaxSockets |-> NoSocket]
    /\ DNA_SAMPLES = [u \in Usernames |-> <<>>]
    /\ dna = NoDna

Accounts ==
    \/ \E u \in Usernames, p \in Passwords : Register(u, p)
    \/ \E u \in Usernames, p \in Passwords \cup {"wrong"} : Login(u, p)
    \/ Tick

--------------------------------------------------------------------------
(* The event log handed to src/checker.py holds the requests that passed   *)
(* the exchange's authentication, validation, trading-window, ownership    *)
(* and collateral gates (answered 200, 204 or 412); a NEW event carries    *)
(* the order_id of the response.  Replay(out, ev) is a request served by   *)
(* the exchange together with the checker's round for its event.           *)

Replay(out, ev) ==
    LET c == IF out.response.code \in {200, 204, 412} THEN simulate(chk, ev)
             ELSE chk
    IN /\ Apply(out)
       /\ Len(c.expected_trades) <= MaxTrades
       /\ Len(c.bids) + Len(c.asks) <= MaxOrders
       /\ chk' = c
       /\ UNCHANGED <<USERS, TOKENS, ORDERS, COLLATERAL, now, ISSUED, THREADS,
                      dnas>>

ReplaySubmit(r) ==
    LET out == SubmitResult(r)
    IN Replay(out,
              ChkEvent("NEW",
                       IF out.response.status = "ACTIVE"
                       THEN Len(V2_ORDERS) + 1 ELSE 0,
                       r.side, r.price, r.quantity, r.token[1]))

ReplayModify(r) ==
    Replay(ModifyResult(r),
           ChkEvent("MODIFY", r.order_id, None, r.price, r.quantity, None))

ReplayCancel(r) ==
    Replay(CancelResult(r), ChkEvent("CANCEL", r.order_id, None, 0, 0, None))

--------------------------------------------------------------------------
(* Specifications.  Each one draws its requests from the sets named in it. *)

TokenA == <<"a", 1>>
TokenB == <<"b", 1>>

(* POST /v2/orders alone, over every execution type and both prices *)
NextSubmit ==
    \/ Accounts
    \/ \E r \in SubmitRequests : SubmitOrderV2(r)

SpecSubmit == Init /\ [][NextSubmit]_vars

(* the singleton GTC submit, modify and cancel paths at one price, with    *)
(* the checker replaying the event log; "a" trades on both sides, "b" buys *)
CheckerSubmits ==
    {r \in SubmitRequests :
       /\ r.execution_type = "GTC" /\ r.price = 1 /\ r.contract = GoodContract
       /\ (r.token = TokenA \/ r.side = "buy")}

CheckerModifies == {r \in ModifyRequests : r.price = 1}

NextChecker ==
    \/ Accounts
    \/ \E r \in CheckerSubmits : ReplaySubmit(r)
    \/ \E r \in CheckerModifies : ReplayModify(r)
    \/ \E r \in CancelRequests : ReplayCancel(r)

SpecChecker == Init /\ [][NextChecker]_vars

(* POST /v2/bulk-operations over a book of sells of "a": "b" creates a     *)
(* buy, "a" modifies or cancels                                            *)
BulkBookSubmits ==
    {r \in SubmitRequests :
       /\ r.execution_type = "GTC" /\ r.token = TokenA /\ r.side = "sell"
       /\ r.price = 1 /\ r.quantity = 1 /\ r.contract = GoodContract}

BulkOps ==
    {BulkOp("create", TokenB, "buy", 1, 1, "GTC", 0)}
    \cup {BulkOp("modify", TokenA, "buy", p, 1, "GTC", 1) : p \in Prices}
    \cup BulkCancels({TokenA})

BulkRequests == BulkRequestsOver(BulkOps)

NextBulk ==
    \/ Accounts
    \/ \E r \in BulkBookSubmits : SubmitOrderV2(r)
    \/ \E c \in BulkRequests : BulkOperations(c)

SpecBulk == Init /\ [][NextBulk]_vars

(* the collateral gate of POST /v2/orders: "a" submits GTC orders, with    *)
(* V1 sell orders and collateral limits set by the admin                   *)
CollateralSubmits ==
    {r \in SubmitRequests :
       /\ r.execution_type = "GTC" /\ r.token = TokenA
       /\ r.contract = GoodContract /\ r.quantity > 0}

NextCollateral ==
    \/ Accounts
    \/ \E r \in CollateralRequests : SetCollateral(r)
    \/ \E r \in V1SubmitRequests : SubmitOrderV1(r)
    \/ \E r \in CollateralSubmits : SubmitOrderV2(r)

SpecCollateral == Init /\ [][NextCollateral]_vars

(* the singleton paths POST, PUT and DELETE /v2/orders with every kind of  *)
(* rejection in reach: GTC orders of quantity 1 at one price ("a" on both  *)
(* sides, "b" buying), modifies of order 1 at that price, cancels by both  *)
(* users, and a collateral limit for "a"                                   *)
SingletonSubmits ==
    {r \in SubmitRequests :
       \/ r.token = BadToken \/ r.quantity = 0 \/ r.contract = BadContract
       \/ /\ r.execution_type = "GTC" /\ r.price = 1 /\ r.quantity = 1
          /\ (r.token = TokenA \/ r.side = "buy")}

NextSingleton ==
    \/ Accounts
    \/ \E r \in {k \in CollateralRequests : k.username = "a"} : SetCollateral(r)
    \/ \E r \in SingletonSubmits : SubmitOrderV2(r)
    \/ \E r \in {m \in ModifyRequests : m.price = 1 /\ m.order_id = 1} :
          ModifyOrder(r)
    \/ \E r \in CancelRequests : CancelOrder(r)

SpecSingleton == Init /\ [][NextSingleton]_vars

(* the life of one order: "a" sells 1 @ 1 and "b" bids 1 at either price,  *)
(* then "a" and "b" modify or cancel order 1, singly or several times in   *)
(* one batch                                                               *)
LifecycleSubmits ==
    {r \in SubmitRequests :
       /\ r.execution_type = "GTC" /\ r.quantity = 1 /\ r.contract = GoodContract
       /\ \/ r.token = TokenA /\ r.side = "sell" /\ r.price = 1
          \/ r.token = TokenB /\ r.side = "buy"}

LifecycleBulkRequests ==
    BulkRequestsOver({BulkOp("modify", TokenA, "buy", p, 1, "GTC", 1) : p \in Prices}
                     \cup {BulkOp("cancel", t, "buy", 0, 0, "GTC", 1) :
                             t \in {TokenA, TokenB}})

NextLifecycle ==
    \/ Accounts
    \/ \E r \in LifecycleSubmits : SubmitOrderV2(r)
    \/ \E r \in {m \in ModifyRequests :
                  m.token # BadToken /\ m.order_id = 1 /\ m.quantity = 1} :
          ModifyOrder(r)
    \/ \E r \in {d \in CancelRequests : d.token # BadToken /\ d.order_id = 1} :
          CancelOrder(r)
    \/ \E c \in LifecycleBulkRequests : BulkOperations(c)

SpecLifecycle == Init /\ [][NextLifecycle]_vars

(* accounts under concurrent service: register, logins served by two       *)
(* threads, each in its two steps, password changes between two passwords, *)
(* cancels that present the tokens, and the clock                          *)
NextAuth ==
    \/ \E u \in Usernames, p \in Passwords : Register(u, p)
    \/ \E th \in 1 .. MaxThreads, u \in Usernames, p \in {"pw", "pw2"} :
          LoginCheck(th, u, p)
    \/ \E th \in 1 .. MaxThreads : LoginIssue(th)
    \/ \E u \in Usernames, o \in {"pw", "pw2"}, n \in {"pw", "pw2"} :
          ChangePassword(u, o, n)
    \/ \E t \in Usernames \X (1 .. MaxLogins) :
          CancelOrder([token |-> t, order_id |-> 1])
    \/ Tick

SpecAuth == Init /\ [][NextAuth]_vars

(* POST /v2/orders served by two threads, each in its steps, with clients  *)
(* on the trade stream: "a" offers 1 @ 1 and bids 1 @ -1, "b" bids 1 @ 1   *)
(* and offers 1 @ -1                                                       *)
ThreadSubmits ==
    {r \in SubmitRequests :
       /\ r.execution_type = "GTC" /\ r.quantity = 1 /\ r.contract = GoodContract
       /\ r.token \in {TokenA, TokenB}
       /\ (r.side = "buy") = (IF r.token = TokenA THEN r.price = -1 ELSE r.price = 1)}

NextThreads ==
    \/ \E u \in Usernames, p \in Passwords : Register(u, p)
    \/ \E u \in Usernames, p \in Passwords : Login(u, p)
    \/ now < DeliveryStart - OPEN_MS /\ Tick
    \/ \E sock \in 1 .. MaxSockets : AttachTradeStream(sock)
    \/ \E th \in 1 .. MaxThreads, r \in ThreadSubmits : SubmitSelect(th, r)
    \/ \E th \in 1 .. MaxThreads : SubmitTrade(th)
    \/ \E th \in 1 .. MaxThreads : SubmitSend(th)
    \/ \E th \in 1 .. MaxThreads : SubmitHit(th)
    \/ \E th \in 1 .. MaxThreads : SubmitFinish(th)

SpecThreads == Init /\ [][NextThreads]_vars

(* POST /v2/orders served by two threads in the statements of the matching *)
(* loop and of _apply_trade_balances, with DELETE /v2/orders/{id} served   *)
(* between any two of them                                                 *)
RaceCancels ==
    {c \in CancelRequests : c.token \in {TokenA, TokenB}}

NextRaces ==
    \/ \E u \in Usernames, p \in Passwords : Register(u, p)
    \/ \E u \in Usernames, p \in Passwords : Login(u, p)
    \/ now < DeliveryStart - OPEN_MS /\ Tick
    \/ \E th \in 1 .. MaxThreads, r \in ThreadSubmits : SubmitSelect(th, r)
    \/ \E th \in 1 .. MaxThreads : SubmitPick(th)
    \/ \E th \in 1 .. MaxThreads : SubmitAppend(th)
    \/ \E th \in 1 .. MaxThreads : BalanceGet(th)
    \/ \E th \in 1 .. MaxThreads : BalanceSet(th)
    \/ \E th \in 1 .. MaxThreads : SubmitHit(th)
    \/ \E th \in 1 .. MaxThreads : SubmitFinish(th)
    \/ \E c \in RaceCancels : CancelOrder(c)

SpecRaces == Init /\ [][NextRaces]_vars

(* "a" bids and offers 1 @ 1 on one contract and "b" offers 1 @ 1: two     *)
(* threads serve POST /v2/orders, and PUT /v2/orders/1 of "a" and batches  *)
(* of creates of "a" are served between their steps                        *)
SelfSubmits ==
    {r \in SubmitRequests :
       /\ r.execution_type = "GTC" /\ r.quantity = 1 /\ r.contract = GoodContract
       /\ r.token \in {TokenA, TokenB} /\ r.price = 1
       /\ r.token = TokenB => r.side = "sell"}

SelfModifies ==
    {m \in ModifyRequests : m.token = TokenA /\ m.quantity = 1 /\ m.order_id = 1}

SelfOps ==
    {BulkOp("create", TokenA, s, 1, 1, "GTC", 0) : s \in {"buy", "sell"}}

SelfBatches ==
    {c \in BulkRequestsOver(SelfOps) : Len(c[1].operations) < MaxOps}

NextSelf ==
    \/ \E u \in Usernames, p \in Passwords : Register(u, p)
    \/ \E u \in Usernames, p \in Passwords : Login(u, p)
    \/ now < DeliveryStart - OPEN_MS /\ Tick
    \/ \E th \in 1 .. MaxThreads, r \in SelfSubmits : SubmitSelect(th, r)
    \/ \E th \in 1 .. MaxThreads : SubmitTrade(th)
    \/ \E th \in 1 .. MaxThreads : SubmitHit(th)
    \/ \E th \in 1 .. MaxThreads : SubmitFinish(th)
    \/ \E m \in SelfModifies : ModifyOrder(m)
    \/ \E c \in SelfBatches : BulkOperations(c)

SpecSelf == Init /\ [][NextSelf]_vars

(* the three streams: "a" offers 1 @ 1 and "b" bids 1 @ 1 inside the       *)
(* trading window, clients attach to the streams and their peers go away   *)
StreamSubmits ==
    {r \in SubmitRequests :
       /\ r.execution_type = "GTC" /\ r.quantity = 1 /\ r.price = 1
       /\ r.contract = GoodContract
       /\ (r.token = TokenA /\ r.side = "sell") \/ (r.token = TokenB /\ r.side = "buy")}

NextStreams ==
    \/ \E u \in Usernames, p \in Passwords : Register(u, p)
    \/ \E u \in Usernames, p \in Passwords : Login(u, p)
    \/ now < DeliveryStart - OPEN_MS /\ Tick
    \/ \E sock \in 1 .. MaxSockets : AttachTradeStream(sock)
    \/ \E sock \in 1 .. MaxSockets : AttachOrderBookStream(sock)
    \/ \E sock \in 1 .. MaxSockets, t \in {TokenA, TokenB, BadToken} :
          AttachExecutionReports(sock, t)
    \/ \E sock \in 1 .. MaxSockets : SocketBreaks(sock)
    \/ \E sock \in 1 .. MaxSockets : Detach(sock)
    \/ \E r \in StreamSubmits : SubmitOrderV2(r)

SpecStreams == Init /\ [][NextStreams]_vars

(* GET /v2/order-book at every time of the clock, over a book of GTC       *)
(* orders of quantity 1: "a" offers and "b" bids at either price           *)
NextBook ==
    \/ Accounts
    \/ \E r \in {k \in LifecycleSubmits : k.price = 1 \/ k.token = TokenB} :
          SubmitOrderV2(r)
    \/ \E c \in {GoodContract, BadContract} : ReadOrderBook(c)

SpecBook == Init /\ [][NextBook]_vars

(* the DNA strings of the runs: up to MaxCodons codons out of two, and two *)
(* strings that _validate_dna_sample rejects                               *)
RECURSIVE Flatten(_)
Flatten(cs) == IF cs = <<>> THEN <<>> ELSE Head(cs) \o Flatten(Tail(cs))

DnaCodons == {<<"A", "C", "G">>, <<"A", "C", "T">>}

DnaStrings ==
    {Flatten(cs) : cs \in UNION {[1 .. n -> DnaCodons] : n \in 0 .. MaxCodons}}
       \cup {<<"A", "C">>, <<"A", "C", "X">>}

(* a fresh server with a reference, a sample and a bound at hand *)
InitDNA ==
    /\ USERS = [u \in Usernames |-> None]
    /\ TOKENS = {}
    /\ ORDERS = <<>>
    /\ V2_ORDERS = <<>>
    /\ TRADES = <<>>
    /\ BALANCES = [u \in Usernames |-> 0]
    /\ COLLATERAL = [u \in Usernames |-> NoLimit]
    /\ now = DeliveryStart - OPEN_MS - 1
    /\ response = NoResponse
    /\ chk = ChkInit
    /\ ISSUED = {}
    /\ THREADS = [th \in 1 .. MaxThreads |-> NoThread]
    /\ TRADE_STREAM_CLIENTS = <<>>
    /\ ORDER_BOOK_STREAM_CLIENTS = <<>>
    /\ EXECUTION_REPORT_CLIENTS = [u \in Usernames |-> <<>>]
    /\ SOCKETS = [sock \in 1 .. MaxSockets |-> NoSocket]
    /\ DNA_SAMPLES = [u \in Usernames |-> <<>>]
    /\ dna \in [reference : DnaStrings, sample : DnaStrings,
                max_diff : 0 .. MaxDiff, measured : {FALSE},
                bounded : {0}, full : {0}]

NextDNA ==
    \/ Register("a", "pw")
    \/ \E p \in {"pw", "wrong"}, s \in {dna.reference, dna.sample} :
          DnaSubmit("a", p, s)
    \/ \E s \in {dna.reference, dna.sample} : DnaLogin("a", s)
    \/ Distances

SpecDNA == InitDNA /\ [][NextDNA]_vars

(* execution reports of a resting order: "a" sells 1 or 2 at one price and *)
(* changes the quantity of order 1, singly or in a batch; "b" buys 1 with  *)
(* IOC orders, which never rest.  A batch is sent while no order's         *)
(* original_quantity has drifted more than MaxQty from its quantity.       *)
ReportSubmits ==
    {r \in SubmitRequests :
       /\ r.price = 1 /\ r.contract = GoodContract
       /\ \/ r.token = TokenA /\ r.side = "sell" /\ r.execution_type = "GTC"
          \/ /\ r.token = TokenB /\ r.side = "buy" /\ r.quantity = 1
             /\ r.execution_type = "IOC"}

ReportModifies ==
    {m \in ModifyRequests : m.token = TokenA /\ m.order_id = 1 /\ m.price = 1}

NextReports ==
    \/ Accounts
    \/ \E r \in ReportSubmits : SubmitOrderV2(r)
    \/ \E m \in ReportModifies : ModifyOrder(m)
    \/ \E m \in ReportModifies :
          /\ \A i \in DOMAIN V2_ORDERS :
                V2_ORDERS[i].original_quantity - V2_ORDERS[i].quantity
                   \in 0 .. MaxQty
          /\ BulkOperations(<<[contract |-> GoodContract,
                               operations |-> <<BulkOp("modify", m.token, "buy",
                                                       m.price, m.quantity,
                                                       "GTC", m.order_id)>>]>>)

SpecReports == Init /\ [][NextReports]_vars

(* fills on the singleton paths: "a" sells 1 or 2 at price 1, "b" bids 1   *)
(* or 2 at either price and moves its bids between the prices              *)
FillSubmits ==
    {r \in SubmitRequests :
       /\ r.execution_type = "GTC" /\ r.contract = GoodContract
       /\ \/ r.token = TokenA /\ r.side = "sell" /\ r.price = 1
          \/ r.token = TokenB /\ r.side = "buy"}

FillModifies == {m \in ModifyRequests : m.token = TokenB}

NextFills ==
    \/ Accounts
    \/ \E r \in FillSubmits : SubmitOrderV2(r)
    \/ \E m \in FillModifies : ModifyOrder(m)

SpecFills == Init /\ [][NextFills]_vars

(* a batch over one resting sell: "a" sells 1 @ 1, then batches in which   *)
(* "a" moves order 1 between the prices and "b" bids 1 at the low price    *)
CrossOps ==
    {BulkOp("create", TokenB, "buy", -1, 1, "GTC", 0)}
    \cup {BulkOp("modify", TokenA, "buy", p, 1, "GTC", 1) : p \in Prices}

NextCross ==
    \/ Accounts
    \/ \E r \in BulkBookSubmits : SubmitOrderV2(r)
    \/ \E c \in BulkRequestsOver(CrossOps) : BulkOperations(c)

SpecCross == Init /\ [][NextCross]_vars

(* every path that writes the trade log or the balances: "a" sells (V1 and *)
(* V2), modifies and cancels, "b" takes and buys, singly or in a batch     *)
LedgerSubmits ==
    {r \in SubmitRequests :
       /\ r.execution_type = "GTC" /\ r.price = 1 /\ r.quantity = 1
       /\ r.contract = GoodContract
       /\ ((r.token = TokenA /\ r.side = "sell")
           \/ (r.token = TokenB /\ r.side = "buy"))}

LedgerModifies == {r \in ModifyRequests : r.token = TokenA /\ r.order_id = 1}

LedgerCancels == {r \in CancelRequests : r.token = TokenA /\ r.order_id = 1}

LedgerV1Submits == {r \in V1SubmitRequests : r.token = TokenA}

LedgerTakes == {r \in TakeRequests : r.token = TokenB}

LedgerBulkRequests ==
    {<<[contract |-> GoodContract, operations |-> <<op>>]>> :
       op \in {BulkOp("create", TokenB, "buy", 1, 1, "GTC", 0),
               BulkOp("cancel", TokenA, "buy", 0, 0, "GTC", 1)}}

Next ==
    \/ Accounts
    \/ \E r \in LedgerV1Submits : SubmitOrderV1(r)
    \/ \E r \in LedgerTakes : TakeOrder(r)
    \/ \E r \in LedgerSubmits : SubmitOrderV2(r)
    \/ \E r \in LedgerModifies : ModifyOrder(r)
    \/ \E r \in LedgerCancels : CancelOrder(r)
    \/ \E c \in LedgerBulkRequests : BulkOperations(c)

Spec == Init /\ [][Next]_vars

--------------------------------------------------------------------------
(* Properties *)

Amount(t) == t.price * t.quantity

(* what the trades of the given sources paid to u and took from u *)
LedgerSum(trades, u, sources) ==
    SumSeq([i \in DOMAIN trades |->
              IF trades[i].source \in sources
              THEN (IF trades[i].seller_id = u THEN Amount(trades[i]) ELSE 0)
                   - (IF trades[i].buyer_id = u THEN Amount(trades[i]) ELSE 0)
              ELSE 0])

(* the trades a request adds to the log *)
NewTrades(out) == SubSeq(out.trades, Len(TRADES) + 1, Len(out.trades))

TablesUnchanged(out) ==
    /\ out.orders = V2_ORDERS
    /\ out.trades = TRADES
    /\ out.balances = BALANCES

(* the ACTIVE opposite-side orders of the contract that the limit price of *)
(* a request reaches                                                       *)
Crossable(side, price, delivery_start) ==
    {i \in DOMAIN V2_ORDERS :
        /\ V2_ORDERS[i].status = "ACTIVE"
        /\ V2_ORDERS[i].quantity > 0
        /\ V2_ORDERS[i].delivery_start = delivery_start
        /\ V2_ORDERS[i].side # side
        /\ IF side = "buy" THEN V2_ORDERS[i].price <= price
           ELSE V2_ORDERS[i].price >= price}

CrossableQuantity(side, price, delivery_start) ==
    SumSeq([i \in DOMAIN V2_ORDERS |->
              IF i \in Crossable(side, price, delivery_start)
              THEN V2_ORDERS[i].quantity ELSE 0])

(* resting order i is strictly ahead of resting order j for a taker on side *)
HigherPriority(i, j, side) ==
    \/ (side = "buy" /\ V2_ORDERS[i].price < V2_ORDERS[j].price)
    \/ (side = "sell" /\ V2_ORDERS[i].price > V2_ORDERS[j].price)
    \/ /\ V2_ORDERS[i].price = V2_ORDERS[j].price
       /\ V2_ORDERS[i].created_at < V2_ORDERS[j].created_at

(* the commitments of u's ACTIVE V2 orders *)
ActiveCommitment(orders, u) ==
    SumSeq([i \in DOMAIN orders |->
              IF orders[i].owner = u /\ orders[i].status = "ACTIVE"
              THEN (IF orders[i].side = "buy"
                    THEN -(orders[i].price * orders[i].quantity)
                    ELSE orders[i].price * orders[i].quantity)
              ELSE 0])

(* a well-formed request of a logged-in user inside the trading window *)
Tradable(r) ==
    /\ r.token \in TOKENS
    /\ r.quantity > 0
    /\ r.contract = GoodContract
    /\ now >= r.contract[1] - OPEN_MS
    /\ now <= r.contract[1] - CLOSE_MS

C2_FailedBulkLeavesNoTrace ==
    \A c \in BulkRequests :
        LET out == handle_bulk_operations(c)
        IN out.response.code # 200 =>
             /\ out.response.code \in {400, 401, 402, 403, 404, 412, 425, 451}
             /\ TablesUnchanged(out)
             /\ out.published = <<>>

(* a batch was answered 404 after at least one of its operations was staged *)
C2_AbortedAfterStaging ==
    /\ response.op = "bulk"
    /\ response.code = 404
    /\ response.staged >= 1

(* C3, for a batch of one operation: after a bulk request of one operation *)
(* answered 200, every resting order hit by one of its trades has lost the *)
(* traded quantity and is FILLED when nothing remains.                     *)
C3_BulkMatchReducesResting ==
    [][(response'.op = "bulk" /\ response'.code = 200 /\ response'.staged = 1)
       => \A k \in (Len(TRADES) + 1) .. Len(TRADES') :
            LET t == TRADES'[k]
            IN t.resting \in DOMAIN V2_ORDERS =>
                 /\ V2_ORDERS'[t.resting].quantity
                      = V2_ORDERS[t.resting].quantity - t.quantity
                 /\ (V2_ORDERS'[t.resting].quantity = 0
                       => V2_ORDERS'[t.resting].status = "FILLED")]_vars

(* C4: the trades of a submit are appended to the log; each is with an     *)
(* ACTIVE crossable opposite-side order of the contract; a later trade is  *)
(* never with an order of strictly higher priority (better price, or equal *)
(* price and smaller created_at) than an earlier one; and every crossable  *)
(* order of strictly higher priority than a traded one was traded with     *)
(* before it and has nothing left.                                         *)
C4_SubmitTradesInPriorityOrder ==
    \A r \in SubmitRequests :
        LET out == SubmitResult(r)
            nt == NewTrades(out)
            cross == Crossable(r.side, r.price, r.contract[1])
        IN /\ SubSeq(out.trades, 1, Len(TRADES)) = TRADES
           /\ \A k \in DOMAIN nt : nt[k].resting \in cross
           /\ \A k, m \in DOMAIN nt :
                k < m => ~HigherPriority(nt[m].resting, nt[k].resting, r.side)
           /\ \A k \in DOMAIN nt : \A j \in cross :
                HigherPriority(j, nt[k].resting, r.side) =>
                  /\ out.orders[j].quantity = 0
                  /\ \E m \in 1 .. (k - 1) : nt[m].resting = j

(* a submit has traded with two resting orders of equal price, the one     *)
(* created first being hit first                                           *)
C4_TwoRestingOrdersHitInOrder ==
    /\ response.op = "submit" /\ response.code = 200
    /\ Len(TRADES) = 2
    /\ TRADES[1].resting # TRADES[2].resting
    /\ TRADES[1].price = TRADES[2].price
    /\ V2_ORDERS[TRADES[1].resting].created_at
         < V2_ORDERS[TRADES[2].resting].created_at
    /\ V2_ORDERS[TRADES[1].resting].status = "FILLED"

(* C5, for events that fall in different milliseconds: the (price,         *)
(* quantity) pairs of the exchange's trade log are the expected trades of  *)
(* the checker's simulation of the same events.                            *)
C5_CheckerExpectsTheExchangeTrades ==
    (\A i, j \in DOMAIN V2_ORDERS :
        i # j => V2_ORDERS[i].created_at # V2_ORDERS[j].created_at)
    => chk.expected_trades
         = [k \in DOMAIN TRADES |-> <<TRADES[k].price, TRADES[k].quantity>>]

(* C6: every V2 trade a request adds to the log has the price that the     *)
(* resting order it names had before the request or has after it.          *)
C6_TradePriceIsRestingPrice ==
    [][\A k \in (Len(TRADES) + 1) .. Len(TRADES') :
         LET t == TRADES'[k]
         IN t.source = "v2" =>
              \/ /\ t.resting \in DOMAIN V2_ORDERS
                 /\ t.price = V2_ORDERS[t.resting].price
              \/ /\ t.resting \in DOMAIN V2_ORDERS'
                 /\ t.price = V2_ORDERS'[t.resting].price]_vars

(* C7: a FOK submit that passes the admission gates is answered FILLED or  *)
(* CANCELLED; CANCELLED exactly when the crossable quantity is less than   *)
(* its quantity, and then nothing is traded or changed and filled_quantity *)
(* is 0; FILLED with trades that sum to exactly its quantity.              *)
C7_FOKAllOrNothing ==
    \A r \in SubmitRequests :
        LET out == SubmitResult(r)
            nt == NewTrades(out)
            crossable == CrossableQuantity(r.side, r.price, r.contract[1])
        IN (r.execution_type = "FOK" /\ out.response.code = 200) =>
             /\ out.response.status \in {"FILLED", "CANCELLED"}
             /\ out.response.status = "CANCELLED" <=> crossable < r.quantity
             /\ out.response.status = "CANCELLED" =>
                  (TablesUnchanged(out) /\ out.filled_quantity = 0)
             /\ out.response.status = "FILLED" =>
                  /\ SumSeq([k \in DOMAIN nt |-> nt[k].quantity]) = r.quantity
                  /\ out.filled_quantity = r.quantity

(* a FOK submit was filled by two resting orders that together hold        *)
(* exactly its quantity                                                    *)
C7_FOKFilledAtEquality ==
    /\ response.op = "submit" /\ response.execution_type = "FOK"
    /\ response.status = "FILLED"
    /\ Len(TRADES) = 2
    /\ TRADES[1].resting # TRADES[2].resting
    /\ \A i \in DOMAIN V2_ORDERS : V2_ORDERS[i].status = "FILLED"

(* C8: a well-formed submit inside the trading window whose price reaches  *)
(* an ACTIVE opposite-side order of the submitter is answered 412 and      *)
(* leaves the orders, the trade log and the balances unchanged.            *)
C8_SelfCrossingSubmitIs412 ==
    \A r \in CollateralSubmits :
        (/\ Tradable(r)
         /\ \E i \in Crossable(r.side, r.price, r.contract[1]) :
               V2_ORDERS[i].owner = r.token[1])
        => /\ SubmitResult(r).response.code = 412
           /\ TablesUnchanged(SubmitResult(r))

(* C9: a well-formed submit inside the trading window is answered 402      *)
(* exactly when the submitter has a limit, the order is a buy at a         *)
(* positive or a sell at a negative price, and the balance plus the        *)
(* commitments of the submitter's ACTIVE orders plus the commitment of the *)
(* new order is below minus the limit.                                     *)
C9_Rejected402ExactlyBelowLimit ==
    \A r \in CollateralSubmits :
        LET u == r.token[1]
            new == IF r.side = "buy" THEN -(r.price * r.quantity)
                   ELSE r.price * r.quantity
        IN Tradable(r) =>
             (SubmitResult(r).response.code = 402
              <=> /\ COLLATERAL[u] # NoLimit
                  /\ (r.side = "buy" /\ r.price > 0) \/ (r.side = "sell" /\ r.price < 0)
                  /\ BALANCES[u] + ActiveCommitment(V2_ORDERS, u) + new
                       < -COLLATERAL[u][1])

(* u's balance plus ACTIVE commitments is at least minus u's limit *)
WithinLimit(u) ==
    COLLATERAL[u] # NoLimit =>
      BALANCES[u] + ActiveCommitment(V2_ORDERS, u) >= -COLLATERAL[u][1]

(* C10, step by step: no request that leaves the limit of a user as it was *)
(* takes the user's balance plus ACTIVE commitments from at least minus    *)
(* the limit to below it.                                                  *)
C10_LimitNeverCrossed ==
    [][\A u \in Usernames :
         (COLLATERAL[u] # NoLimit /\ COLLATERAL'[u] = COLLATERAL[u]
          /\ WithinLimit(u)) => WithinLimit(u)']_vars

(* now is inside the trading window of the contract starting at delivery_start *)
InWindow(delivery_start) ==
    /\ now >= delivery_start - OPEN_MS
    /\ now <= delivery_start - CLOSE_MS

(* the status the window demands: 425 before it opens, 451 after it has    *)
(* closed, 0 inside, both ends included                                    *)
WindowStatus(delivery_start) ==
    IF now < delivery_start - OPEN_MS THEN 425
    ELSE IF now > delivery_start - CLOSE_MS THEN 451
    ELSE 0

(* C11: a well-formed V2 submit of a logged-in user and a bulk request on  *)
(* a well-formed contract are answered 425 before the window opens and 451 *)
(* after it has closed, and then leave the orders, the trade log and the   *)
(* balances unchanged and publish nothing; at the two ends of the window   *)
(* and between them they are answered neither 425 nor 451.                 *)
C11_WindowGate ==
    /\ \A r \in SubmitRequests :
         (r.token \in TOKENS /\ r.quantity > 0 /\ r.contract = GoodContract) =>
           LET out == SubmitResult(r)
               want == WindowStatus(r.contract[1])
           IN IF want # 0
              THEN /\ out.response.code = want
                   /\ TablesUnchanged(out)
                   /\ out.published = <<>>
              ELSE out.response.code \notin {425, 451}
    /\ \A c \in BulkRequests :
         c[1].contract = GoodContract =>
           LET out == handle_bulk_operations(c)
               want == WindowStatus(c[1].contract[1])
           IN IF want # 0
              THEN /\ out.response.code = want
                   /\ TablesUnchanged(out)
                   /\ out.published = <<>>
              ELSE out.response.code \notin {425, 451}

(* an order was admitted at the instant the window opened, another at the  *)
(* instant it closed, and a bulk request one millisecond later got 451     *)
C11_AdmittedAtBothEndsThenLate ==
    /\ Len(V2_ORDERS) = 2
    /\ V2_ORDERS[1].created_at = DeliveryStart - OPEN_MS
    /\ V2_ORDERS[2].created_at = DeliveryStart - CLOSE_MS
    /\ now = DeliveryStart - CLOSE_MS + 1
    /\ response.op = "bulk"
    /\ response.code = 451

(* C12: outside the trading window of the target order's contract, a       *)
(* modify or a cancel of an ACTIVE order by its logged-in owner is         *)
(* answered 425 (before the window) or 451 (after it) and leaves the       *)
(* orders, the trade log and the balances unchanged.                       *)
C12_ModifyAndCancelObserveWindow ==
    /\ \A r \in ModifyRequests :
         (/\ r.token \in TOKENS /\ r.quantity > 0 /\ FindActive(r.order_id)
          /\ V2_ORDERS[r.order_id].owner = r.token[1]
          /\ ~InWindow(V2_ORDERS[r.order_id].delivery_start))
         => /\ ModifyResult(r).response.code
                 = WindowStatus(V2_ORDERS[r.order_id].delivery_start)
            /\ TablesUnchanged(ModifyResult(r))
    /\ \A r \in CancelRequests :
         (/\ r.token \in TOKENS /\ FindActive(r.order_id)
          /\ V2_ORDERS[r.order_id].owner = r.token[1]
          /\ ~InWindow(V2_ORDERS[r.order_id].delivery_start))
         => /\ CancelResult(r).response.code
                 = WindowStatus(V2_ORDERS[r.order_id].delivery_start)
            /\ TablesUnchanged(CancelResult(r))

(* the new order would take u's balance plus the commitments of u's ACTIVE *)
(* orders below minus u's limit                                            *)
ExceedsCollateral(u, side, price, quantity) ==
    /\ COLLATERAL[u] # NoLimit
    /\ (side = "buy" /\ price > 0) \/ (side = "sell" /\ price < 0)
    /\ BALANCES[u] + ActiveCommitment(V2_ORDERS, u)
         + (IF side = "buy" THEN -(price * quantity) ELSE price * quantity)
         < -COLLATERAL[u][1]

(* the bulk request that holds the create r as its only operation *)
BulkCreateOf(r) ==
    <<[contract |-> r.contract,
       operations |-> <<BulkOp("create", r.token, r.side, r.price, r.quantity,
                               r.execution_type, 0)>>]>>

(* C13: a well-formed create inside the trading window that reaches an     *)
(* ACTIVE opposite-side order of its submitter and also exceeds the        *)
(* submitter's collateral is answered 412, on the singleton submit path    *)
(* and as the only operation of a bulk request.                            *)
C13_SelfMatchGateBeforeCollateralGate ==
    \A r \in CollateralSubmits :
        (/\ Tradable(r)
         /\ \E i \in Crossable(r.side, r.price, r.contract[1]) :
               V2_ORDERS[i].owner = r.token[1]
         /\ ExceedsCollateral(r.token[1], r.side, r.price, r.quantity))
        => /\ SubmitResult(r).response.code = 412
           /\ handle_bulk_operations(BulkCreateOf(r)).response.code = 412

FailureStatuses == {400, 401, 402, 403, 404, 412, 425, 451}

(* the broadcasts of a request on the trade and order-book streams *)
TradeAndBookEvents(out) ==
    {k \in DOMAIN out.published :
       out.published[k].topic \in {"trades", "order_book"}}

(* C14: a singleton submit, modify or cancel that is answered with a       *)
(* failure status leaves every order with all its fields, the trade log    *)
(* and all balances as they were and publishes no trade and no book-delta  *)
(* event.                                                                  *)
C14_RejectedSingletonChangesNothing ==
    /\ \A r \in SubmitRequests :
         SubmitResult(r).response.code \in FailureStatuses =>
           /\ TablesUnchanged(SubmitResult(r))
           /\ TradeAndBookEvents(SubmitResult(r)) = {}
    /\ \A r \in ModifyRequests :
         ModifyResult(r).response.code \in FailureStatuses =>
           /\ TablesUnchanged(ModifyResult(r))
           /\ TradeAndBookEvents(ModifyResult(r)) = {}
    /\ \A r \in CancelRequests :
         CancelResult(r).response.code \in FailureStatuses =>
           /\ TablesUnchanged(CancelResult(r))
           /\ TradeAndBookEvents(CancelResult(r)) = {}

(* a modify was refused for collateral while two ACTIVE orders rest in the *)
(* book                                                                    *)
C14_ModifyRefusedOnFullBook ==
    /\ response.op = "modify"
    /\ response.code = 402
    /\ Len(V2_ORDERS) = 2
    /\ \A i \in DOMAIN V2_ORDERS : V2_ORDERS[i].status = "ACTIVE"

Terminal(o) == o.status \in {"FILLED", "CANCELLED"}

(* the order table as the commit loop of a bulk request leaves it after    *)
(* the first k staged results                                              *)
CommittedOrders(staged_ops, k) ==
    Commit(SubSeq(staged_ops, 1, k), StartAcc(V2_ORDERS, 0)).orders

(* C15, for the operations of one batch: when a bulk request is replayed,  *)
(* an order that is FILLED or CANCELLED after one of its operations keeps  *)
(* that state, its price and its quantity through every later operation of *)
(* the batch and never is ACTIVE again.                                    *)
C15_TerminalOrderStaysTerminal ==
    \A c \in LifecycleBulkRequests :
        LET sim == SimulateContracts(c, <<>>)
        IN sim.ok =>
             \A k \in 1 .. Len(sim.staged) :
                 LET before == CommittedOrders(sim.staged, k - 1)
                     after == CommittedOrders(sim.staged, k)
                 IN \A i \in DOMAIN before :
                      Terminal(before[i]) =>
                        /\ after[i].status # "ACTIVE"
                        /\ after[i].price = before[i].price
                        /\ after[i].quantity = before[i].quantity

(* C16: in every state between two requests, every order whose status is  *)
(* ACTIVE has a quantity greater than 0.                                   *)
C16_ActiveOrderHasQuantity ==
    \A i \in DOMAIN V2_ORDERS :
        V2_ORDERS[i].status = "ACTIVE" => V2_ORDERS[i].quantity > 0

(* a bulk modify has just filled its order against a resting bid: the      *)
(* order is FILLED with quantity 0 beside an ACTIVE one                    *)
C16_BulkModifyFilledItsOrder ==
    /\ response.op = "bulk" /\ response.code = 200
    /\ Len(TRADES) >= 1
    /\ \E i \in DOMAIN V2_ORDERS :
         V2_ORDERS[i].status = "FILLED" /\ V2_ORDERS[i].quantity = 0
    /\ \E i \in DOMAIN V2_ORDERS : V2_ORDERS[i].status = "ACTIVE"

(* C17: every order whose status is FILLED or CANCELLED has quantity 0.    *)
C17_TerminalOrderHasNoQuantity ==
    \A i \in DOMAIN V2_ORDERS :
        Terminal(V2_ORDERS[i]) => V2_ORDERS[i].quantity = 0

(* the bulk request on the one contract with the given operations *)
BatchOf(operations) == <<[contract |-> GoodContract, operations |-> operations]>>

BulkCancelOp(token, order_id) == BulkOp("cancel", token, "buy", 0, 0, "GTC", order_id)

(* a cancel or a well-formed modify of a FILLED or CANCELLED order by a    *)
(* logged-in user, owner or not, is answered 404 and changes nothing       *)
LaterRequestsAre404 ==
    /\ \A r \in CancelRequests :
         (/\ r.token \in TOKENS /\ r.order_id \in DOMAIN V2_ORDERS
          /\ Terminal(V2_ORDERS[r.order_id]))
         => /\ CancelResult(r).response.code = 404
            /\ TablesUnchanged(CancelResult(r))
    /\ \A r \in ModifyRequests :
         (/\ r.token \in TOKENS /\ r.quantity > 0
          /\ r.order_id \in DOMAIN V2_ORDERS
          /\ Terminal(V2_ORDERS[r.order_id]))
         => /\ ModifyResult(r).response.code = 404
            /\ TablesUnchanged(ModifyResult(r))

(* inside the window, a batch that cancels an ACTIVE order by its owner    *)
(* and then cancels the same id again, by any logged-in user, is answered  *)
(* 404 and changes nothing                                                 *)
SecondCancelInBatchIs404 ==
    \A i \in DOMAIN V2_ORDERS : \A owner, t \in TOKENS :
        (/\ FindActive(i) /\ V2_ORDERS[i].owner = owner[1]
         /\ InWindow(V2_ORDERS[i].delivery_start))
        => LET out == handle_bulk_operations(
                        BatchOf(<<BulkCancelOp(owner, i), BulkCancelOp(t, i)>>))
           IN /\ out.response.code = 404
              /\ TablesUnchanged(out)

(* C18: once an order is CANCELLED or FILLED, every later cancel or modify *)
(* of it by any logged-in caller is answered 404 and changes nothing, and  *)
(* so is the batch that holds a second cancel of an id it has cancelled.   *)
C18_CancelOfTerminalOrderIs404 ==
    LaterRequestsAre404 /\ SecondCancelInBatchIs404

(* the orders of other users than u are as before the request, except      *)
(* those that one of its trades names as the resting side                  *)
OthersUntouched(out, u) ==
    \A i \in DOMAIN V2_ORDERS :
        V2_ORDERS[i].owner # u =>
          \/ out.orders[i] = V2_ORDERS[i]
          \/ \E k \in DOMAIN NewTrades(out) : NewTrades(out)[k].resting = i

(* the one user all operations of a bulk request act for, None otherwise *)
BatchUser(c) ==
    IF \A k \in DOMAIN c[1].operations :
          c[1].operations[k].token = c[1].operations[1].token
    THEN c[1].operations[1].token[1] ELSE None

(* C19: a cancel or a well-formed modify of an ACTIVE order by a logged-in *)
(* user who is not its owner is answered 403 and changes nothing, as a     *)
(* singleton request and as the only operation of a bulk request inside    *)
(* the window; and no submit, modify, cancel or bulk request of one user   *)
(* changes an order of another user unless one of its trades is with that  *)
(* order.                                                                  *)
C19_OnlyTheOwnerChangesAnOrder ==
    /\ \A r \in CancelRequests :
         (/\ r.token \in TOKENS /\ FindActive(r.order_id)
          /\ V2_ORDERS[r.order_id].owner # r.token[1])
         => /\ CancelResult(r).response.code = 403
            /\ TablesUnchanged(CancelResult(r))
            /\ (InWindow(V2_ORDERS[r.order_id].delivery_start) =>
                  LET out == handle_bulk_operations(
                               BatchOf(<<BulkCancelOp(r.token, r.order_id)>>))
                  IN out.response.code = 403 /\ TablesUnchanged(out))
    /\ \A r \in ModifyRequests :
         (/\ r.token \in TOKENS /\ r.quantity > 0 /\ FindActive(r.order_id)
          /\ V2_ORDERS[r.order_id].owner # r.token[1])
         => /\ ModifyResult(r).response.code = 403
            /\ TablesUnchanged(ModifyResult(r))
            /\ (InWindow(V2_ORDERS[r.order_id].delivery_start) =>
                  LET out == handle_bulk_operations(
                               BatchOf(<<BulkOp("modify", r.token, "buy", r.price,
                                                r.quantity, "GTC", r.order_id)>>))
                  IN out.response.code = 403 /\ TablesUnchanged(out))
    /\ \A r \in SubmitRequests : OthersUntouched(SubmitResult(r), r.token[1])
    /\ \A r \in ModifyRequests : OthersUntouched(ModifyResult(r), r.token[1])
    /\ \A r \in CancelRequests : OthersUntouched(CancelResult(r), r.token[1])
    /\ \A c \in LifecycleBulkRequests :
         BatchUser(c) # None => OthersUntouched(handle_bulk_operations(c), BatchUser(c))

(* a batch was refused with 403 after an operation of the owner had been   *)
(* staged, and the owner's order is still ACTIVE                           *)
C19_StrangerRefusedInBatch ==
    /\ response.op = "bulk"
    /\ response.code = 403
    /\ response.staged >= 1
    /\ \E i \in DOMAIN V2_ORDERS :
         V2_ORDERS[i].owner = "a" /\ V2_ORDERS[i].status = "ACTIVE"

(* created_at of an order after a modify at "now": the current time when   *)
(* the price changes or the quantity increases, else what it was           *)
CreatedAtAfterModify(o, new_price, new_quantity) ==
    IF new_price # o.price \/ new_quantity > o.quantity THEN now
    ELSE o.created_at

TradedQuantity(ts) == SumSeq([i \in DOMAIN ts |-> ts[i].quantity])

(* what an IOC order of the given quantity must report after trades ts *)
IOCStatus(quantity, ts) ==
    IF TradedQuantity(ts) = quantity THEN "FILLED" ELSE "CANCELLED"

(* C21: an IOC create answered 200, sent as a singleton submit or as the   *)
(* only operation of a bulk request, leaves the order table with the       *)
(* orders it had and no new one, keeps the log it found and appends its    *)
(* trades to it, and reports FILLED when the trades add up to its quantity *)
(* and CANCELLED otherwise.                                                *)
C21_IOCNeverRests ==
    \A r \in SubmitRequests :
        r.execution_type = "IOC" =>
          LET single == SubmitResult(r)
              sim == SimulateContracts(BulkCreateOf(r), <<>>)
              batch == handle_bulk_operations(BulkCreateOf(r))
          IN /\ single.response.code = 200 =>
                  /\ Len(single.orders) = Len(V2_ORDERS)
                  /\ \A i \in DOMAIN V2_ORDERS :
                        single.orders[i].order_id = V2_ORDERS[i].order_id
                  /\ SubSeq(single.trades, 1, Len(TRADES)) = TRADES
                  /\ TradedQuantity(NewTrades(single)) = single.filled_quantity
                  /\ single.response.status = IOCStatus(r.quantity, NewTrades(single))
             /\ batch.response.code = 200 =>
                  /\ batch.orders = V2_ORDERS
                  /\ SubSeq(batch.trades, 1, Len(TRADES)) = TRADES
                  /\ NewTrades(batch) = sim.staged[1].trades
                  /\ sim.staged[1].status = IOCStatus(r.quantity, NewTrades(batch))

(* an IOC buy of 2 has taken the one unit on offer and was cancelled for   *)
(* the rest: one trade in the log, the hit order FILLED, nothing resting   *)
C21_IOCPartlyFilledThenGone ==
    /\ response.op = "submit" /\ response.execution_type = "IOC"
    /\ response.status = "CANCELLED"
    /\ Len(TRADES) = 1 /\ Len(V2_ORDERS) = 1
    /\ V2_ORDERS[1].status = "FILLED"

(* the NEW events of the checker's log for an order id no entry holds *)
ChkNewEvents ==
    {ChkEvent("NEW", MaxOrders + 1, s, p, q, u) :
       s \in Sides, p \in Prices, q \in Quantities, u \in Usernames}

(* the quantity of the trades the checker's round for ev adds *)
ChkTraded(c, c2) ==
    SumSeq([i \in 1 .. (Len(c2.expected_trades) - Len(c.expected_trades)) |->
              c2.expected_trades[Len(c.expected_trades) + i][2]])

(* C22: a GTC submit answered 200 whose trades add up to less than its     *)
(* quantity appends exactly one order, ACTIVE, of its submitter, with the  *)
(* submitted side and price and with the submitted quantity minus the      *)
(* traded quantity, and makes no other order ACTIVE; one whose trades add  *)
(* up to its quantity appends no order and reports FILLED.  The checker's  *)
(* round for a NEW event rests the same remainder in its own book.         *)
C22_GTCRestsItsRemainder ==
    /\ \A r \in SubmitRequests :
         LET out == SubmitResult(r)
             traded == TradedQuantity(NewTrades(out))
             n == Len(V2_ORDERS)
         IN (r.execution_type = "GTC" /\ out.response.code = 200) =>
              /\ \A i \in DOMAIN V2_ORDERS :
                    /\ out.orders[i].order_id = V2_ORDERS[i].order_id
                    /\ out.orders[i].status = "ACTIVE"
                         => V2_ORDERS[i].status = "ACTIVE"
              /\ IF traded < r.quantity
                 THEN /\ Len(out.orders) = n + 1
                      /\ out.orders[n + 1].status = "ACTIVE"
                      /\ out.orders[n + 1].owner = r.token[1]
                      /\ out.orders[n + 1].side = r.side
                      /\ out.orders[n + 1].price = r.price
                      /\ out.orders[n + 1].quantity = r.quantity - traded
                      /\ out.response.status = "ACTIVE"
                 ELSE /\ Len(out.orders) = n
                      /\ out.response.status = "FILLED"
    /\ \A ev \in ChkNewEvents :
         LET c2 == chk_new(chk, ev)
             traded == ChkTraded(chk, c2)
             own == book_own(chk, ev.side)
             own2 == book_own(c2, ev.side)
             mine == {i \in DOMAIN own2 : own2[i].order_id = ev.order_id}
         IN ~self_blocked(chk, ev.side, ev.price, ev.user_id, 0) =>
              IF traded < ev.quantity
              THEN /\ Len(own2) = Len(own) + 1
                   /\ Cardinality(mine) = 1
                   /\ \A i \in mine : /\ own2[i].price = ev.price
                                      /\ own2[i].quantity = ev.quantity - traded
              ELSE own2 = own

(* a GTC buy of 2 has taken the one unit on offer and rests with the other *)
(* unit, on the exchange and in the checker's book                         *)
C22_PartlyFilledOrderRests ==
    /\ response.op = "submit" /\ response.execution_type = "GTC"
    /\ response.status = "ACTIVE"
    /\ Len(TRADES) = 1 /\ Len(V2_ORDERS) = 2
    /\ V2_ORDERS[1].status = "FILLED"
    /\ V2_ORDERS[2].status = "ACTIVE"
    /\ V2_ORDERS[2].quantity = 1 /\ V2_ORDERS[2].original_quantity = 2
    /\ Len(chk.bids) = 1 /\ chk.bids[1].quantity = 1
    /\ chk.asks = <<>> /\ Len(chk.expected_trades) = 1

(* the tokens minted so far that are no longer in TOKENS *)
DeadTokens == ISSUED \ TOKENS

(* the answers to bearer token t of the endpoints that authenticate with   *)
(* _get_authenticated_user, and the answer of the bulk endpoint to an      *)
(* operation with participant_token t on a contract whose window is open   *)
(* (the bulk handler checks the contract before it looks at the tokens)    *)
AnswersTo(t) ==
    {handle_submit_order_v2(t, "buy", 1, 1, GoodContract[1], GoodContract[2],
                            "GTC").response.code,
     handle_modify_order(t, 1, 1, 1).response.code,
     handle_cancel_order(t, 1).response.code,
     IF InWindow(DeliveryStart)
     THEN handle_bulk_operations(BatchOf(<<BulkCancelOp(t, 1)>>)).response.code
     ELSE 401}

C24_NoTokenFromOldPassword ==
    [][\A th \in 1 .. MaxThreads :
          LoginIssue(th)
          => USERS[THREADS[th].username] = THREADS[th].password]_vars

(* C25: while a submit is between its selection of the candidates and its  *)
(* last write, a step of any other request leaves the order list, the      *)
(* trade log and the balances as they are.                                 *)
C25_RequestsAreAtomic ==
    [][\A th \in 1 .. MaxThreads :
          (THREADS[th].pc # "idle" /\ THREADS'[th] = THREADS[th])
          => UNCHANGED <<V2_ORDERS, TRADES, BALANCES>>]_vars

(* the places of the trade frames among the frames socket sock received *)
TradeFrames(sock) ==
    {k \in DOMAIN SOCKETS[sock].frames : SOCKETS[sock].frames[k].topic = "trades"}

(* the places in the trade log of the trades that hit the order of frame e *)
LogPlaces(e) == {p \in DOMAIN TRADES : TRADES[p].resting = e.order_id}

(* C26: every subscriber of the trade stream receives any two trades in    *)
(* the order in which the trade log holds them, so that no two subscribers *)
(* receive the same two trades in opposite orders.                         *)
C26_TradeStreamFollowsTheLog ==
    /\ \A sock \in DOMAIN SOCKETS :
         \A i, j \in TradeFrames(sock) :
            i < j => \E p \in LogPlaces(SOCKETS[sock].frames[i]),
                        q \in LogPlaces(SOCKETS[sock].frames[j]) : p <= q
    /\ \A s1, s2 \in DOMAIN SOCKETS :
         \A i, j \in TradeFrames(s1), k, l \in TradeFrames(s2) :
            (/\ i < j
             /\ SOCKETS[s1].frames[i] # SOCKETS[s1].frames[j]
             /\ SOCKETS[s2].frames[k] = SOCKETS[s1].frames[i]
             /\ SOCKETS[s2].frames[l] = SOCKETS[s1].frames[j])
            => k < l

(* C27: every execution-report frame a socket has received is about an     *)
(* order of the user the socket was registered for; a socket is listed     *)
(* under user u only if it attached with a token that was bound to u at    *)
(* that moment; an attach with a missing or unknown token leaves the       *)
(* registry as it is and closes the socket, which receives nothing.        *)
C27_ReportsGoToTheirOwner ==
    /\ [](/\ \A sock \in DOMAIN SOCKETS :
               \A k \in DOMAIN SOCKETS[sock].frames :
                  SOCKETS[sock].frames[k].topic = "execution_reports"
                  => SOCKETS[sock].frames[k].owner = SOCKETS[sock].username
          /\ \A u \in Usernames :
               \A sock \in Range(EXECUTION_REPORT_CLIENTS[u]) :
                  SOCKETS[sock].username = u)
    /\ [][\A sock \in 1 .. MaxSockets, t \in {TokenA, TokenB, BadToken} :
             AttachExecutionReports(sock, t)
             => IF t \in TOKENS
                THEN /\ SOCKETS'[sock].username = t[1]
                     /\ sock \in Range(EXECUTION_REPORT_CLIENTS'[t[1]])
                ELSE /\ UNCHANGED EXECUTION_REPORT_CLIENTS
                     /\ SOCKETS'[sock].state = "closed"
                     /\ SOCKETS'[sock].frames = <<>>]_vars

(* a subscriber of "a" and a subscriber of "b" have both received reports, *)
(* each one only about orders of its user                                  *)
C27_EachSubscriberHasItsReports ==
    /\ SOCKETS[1].username = "a" /\ SOCKETS[2].username = "b"
    /\ \E k \in DOMAIN SOCKETS[1].frames : SOCKETS[1].frames[k].owner = "a"
    /\ \E k \in DOMAIN SOCKETS[2].frames : SOCKETS[2].frames[k].owner = "b"

(* the events of a request that are addressed to a list holding sock *)
EventsFor(out, sock) ==
    SelectSeq(out.published, LAMBDA e : sock \in Range(Clients(Bus, e)))

(* the sockets of a list whose peers still read *)
StillOpen(clients) == SelectSeq(clients, LAMBDA c : SOCKETS[c].state = "open")

(* C28: when a submit broadcasts its events, every socket whose sendall     *)
(* fails is removed from the list the event went to, every other socket of *)
(* that list receives each event addressed to it, in order, and stays in   *)
(* the list; the submit writes its tables and its answer all the same.     *)
C28_SendFailureDropsOnlyThatSubscriber ==
    /\ [](\A r \in StreamSubmits :
            LET out == SubmitResult(r)
                bus == Publish(out.published, Bus)
            IN /\ \A sock \in DOMAIN SOCKETS :
                    bus.sockets[sock].frames =
                       IF SOCKETS[sock].state = "open"
                       THEN SOCKETS[sock].frames \o EventsFor(out, sock)
                       ELSE SOCKETS[sock].frames
               /\ \A k \in DOMAIN out.published :
                    Clients(bus, out.published[k])
                      = StillOpen(Clients(Bus, out.published[k])))
    /\ [][\A r \in StreamSubmits :
             SubmitOrderV2(r)
             => /\ V2_ORDERS' = SubmitResult(r).orders
                /\ TRADES' = SubmitResult(r).trades
                /\ BALANCES' = SubmitResult(r).balances
                /\ response' = SubmitResult(r).response]_vars

(* the second trade went out after the peer of socket 1 had gone: socket 1 *)
(* was dropped from the trade stream with the one frame it had, socket 2   *)
(* is still listed and has both trades                                     *)
C28_BrokenSocketDroppedOtherServed ==
    /\ response.op = "submit" /\ response.code = 200
    /\ Len(TRADES) = 2
    /\ SOCKETS[1].state = "broken" /\ Len(SOCKETS[1].frames) = 1
    /\ SOCKETS[1].frames[1].topic = "trades"
    /\ TRADE_STREAM_CLIENTS = <<2>>
    /\ Len(SOCKETS[2].frames) = 2 /\ SOCKETS[2].frames[2].topic = "trades"

(* the contract has an order that is still ACTIVE *)
HasActiveOrder(contract) ==
    \E i \in DOMAIN V2_ORDERS :
       /\ V2_ORDERS[i].status = "ACTIVE" /\ V2_ORDERS[i].quantity > 0
       /\ V2_ORDERS[i].delivery_start = contract[1]

(* C29: at a time before the contract's window opens or after it closes,   *)
(* the order book of a well-formed contract is answered 200 with no bids   *)
(* and no asks, whatever orders the contract has; a read of the order book *)
(* writes nothing but the answer.                                          *)
C29_ClosedWindowBookIsEmpty ==
    /\ [](~InWindow(DeliveryStart)
          => handle_v2_order_book(GoodContract[1], GoodContract[2])
               = [code |-> 200, bids |-> <<>>, asks |-> <<>>])
    /\ [][\A c \in {GoodContract, BadContract} :
             ReadOrderBook(c)
             => /\ UNCHANGED <<USERS, TOKENS, ORDERS, V2_ORDERS, TRADES,
                               BALANCES, COLLATERAL, now, streams>>
                /\ (~InWindow(DeliveryStart) /\ c = GoodContract)
                   => (response'.code = 200 /\ response'.staged = 0)]_vars

(* the window has closed on a resting order and the read answered 200 with *)
(* an empty book                                                           *)
C29_EmptyBookOverActiveOrder ==
    /\ response.op = "order_book" /\ response.code = 200 /\ response.staged = 0
    /\ now > DeliveryStart - CLOSE_MS
    /\ HasActiveOrder(GoodContract)

(* the codon-level Levenshtein distance of src/dna.py is within what the   *)
(* match rule allows for the reference: floor((|R| / 3) / 100000)          *)
WithinAllowed(reference, dna_sample) ==
    codon_edit_distance(reference, dna_sample)
       <= (Len(reference) \div 3) \div CODONS_PER_EDIT

(* C30: for the reference, the sample and the bound k at hand, the banded  *)
(* routine returns a value <= k exactly when the full dynamic-programming  *)
(* distance is <= k; and a DNA login with a well-formed sample is answered *)
(* 200 exactly when the user has a stored reference R whose codon-level    *)
(* Levenshtein distance to the sample is <= floor((|R| / 3) / 100000).     *)
C30_BandedDistanceDecidesLogin ==
    /\ [](dna.measured
          => (dna.bounded <= dna.max_diff <=> dna.full <= dna.max_diff))
    /\ [][\A s \in {dna.reference, dna.sample} :
             (DnaLogin("a", s) /\ validate_dna_sample(s))
             => (response'.code = 200
                 <=> \E k \in DOMAIN DNA_SAMPLES["a"] :
                        WithinAllowed(DNA_SAMPLES["a"][k], s))]_vars

(* two strings of three codons one substitution apart, measured with bound *)
(* 1 by both routines; both are stored and the login with one of them got  *)
(* its token                                                               *)
C30_BandUsedAndLoginAccepted ==
    /\ Len(dna.reference) = 9 /\ Len(dna.sample) = 9
    /\ dna.measured /\ dna.max_diff = 1 /\ dna.bounded = 1 /\ dna.full = 1
    /\ Len(DNA_SAMPLES["a"]) = 2
    /\ response.op = "login" /\ response.code = 200 /\ TOKENS # {}

(* the trades staged by the results k .. Len(staged_ops), in order *)
RECURSIVE StagedTradesFrom(_, _)
StagedTradesFrom(staged_ops, k) ==
    IF k > Len(staged_ops) THEN <<>>
    ELSE staged_ops[k].trades \o StagedTradesFrom(staged_ops, k + 1)

(* the quantity the staged trades take from the resting order id *)
StagedAgainst(staged_ops, id) ==
    TradedQuantity(SelectSeq(StagedTradesFrom(staged_ops, 1),
                             LAMBDA t : t.resting = id))

(* the staged modifies of id before result j *)
ModifiesBefore(staged_ops, id, j) ==
    {k \in 1 .. (j - 1) :
       staged_ops[k].action = "modify" /\ staged_ops[k].order_id = id}

(* C31: in a batch whose simulation succeeds, the staged trades against a  *)
(* resting order that the batch does not modify take no more than the      *)
(* quantity the order has; no staged trade is with an order that an        *)
(* earlier operation of the batch cancelled; and a staged trade with an    *)
(* order that earlier operations of the batch modified has the price of    *)
(* the latest of these modifies.                                           *)
C31_LaterOpsSeeEarlierStagedOps ==
    \A c \in BulkRequests :
       LET sim == SimulateContracts(c, <<>>)
           staged_ops == sim.staged
       IN sim.ok =>
            /\ \A id \in DOMAIN V2_ORDERS :
                 ModifiesBefore(staged_ops, id, Len(staged_ops) + 1) = {}
                 => StagedAgainst(staged_ops, id) <= V2_ORDERS[id].quantity
            /\ \A k, j \in DOMAIN staged_ops :
                 (k < j /\ staged_ops[k].action = "cancel")
                 => \A n \in DOMAIN staged_ops[j].trades :
                       staged_ops[j].trades[n].resting # staged_ops[k].order_id
            /\ \A j \in DOMAIN staged_ops :
                 \A n \in DOMAIN staged_ops[j].trades :
                    LET t == staged_ops[j].trades[n]
                        ms == ModifiesBefore(staged_ops, t.resting, j)
                    IN ms # {} =>
                         t.price = staged_ops[CHOOSE k \in ms :
                                                \A m \in ms : m <= k].new_price

(* C32: a bulk request of one create that is answered 200 publishes the    *)
(* events the singleton submit of the same order publishes: the trade      *)
(* events, the book deltas of the new order and of every resting order     *)
(* that was hit, and the execution reports of the new order and of every   *)
(* resting order that was hit.                                             *)
C32_BulkPublishesWhatSingletonsPublish ==
    \A r \in {k \in SubmitRequests :
                /\ k.token = TokenB /\ k.side = "buy" /\ k.price = 1
                /\ k.quantity = 1 /\ k.contract = GoodContract} :
       LET single == SubmitResult(r)
           bulk == handle_bulk_operations(BulkCreateOf(r))
       IN (single.response.code = 200 /\ bulk.response.code = 200)
          => Range(bulk.published) = Range(single.published)

(* C33: every execution report a submit publishes for a resting order has  *)
(* as filled_quantity the total quantity of the trades against that order  *)
(* in the log and as remaining_quantity the quantity the order has.  (In   *)
(* these runs an order of "a" never trades as the incoming side.)          *)
C33_ReportShowsWhatWasTraded ==
    \A r \in ReportSubmits :
       LET out == SubmitResult(r)
       IN \A k \in DOMAIN out.published :
            LET e == out.published[k]
            IN (e.topic = "execution_reports" /\ e.order_id \in DOMAIN V2_ORDERS)
               => LET report == execution_report(out.orders[e.order_id])
                  IN /\ report.filled_quantity
                          = TradedQuantity(SelectSeq(out.trades,
                               LAMBDA t : t.resting = e.order_id))
                     /\ report.remaining_quantity
                          = out.orders[e.order_id].quantity

(* the place of the first event e in the broadcasts pub, 0 when absent *)
Pos(pub, e) ==
    LET at == {k \in DOMAIN pub : pub[k] = e}
    IN IF at = {} THEN 0 ELSE CHOOSE k \in at : \A j \in at : k <= j

(* what a singleton request must do for each of its fills: nt are its new  *)
(* trades, each with another resting order                                 *)
FillsInOrder(out, nt) ==
    \A k \in DOMAIN nt :
       LET i == nt[k].resting
           before == V2_ORDERS[i]
           after == out.orders[i]
           delta == BookEvent(i, IF after.quantity = 0 THEN "REMOVE"
                                 ELSE "MODIFY")
           report == ReportEvent(i, before.owner, after.status)
       IN /\ after.quantity = before.quantity - nt[k].quantity
          /\ after.status = IF after.quantity = 0 THEN "FILLED" ELSE "ACTIVE"
          /\ 0 < Pos(out.published, TradeEvent(nt[k]))
          /\ Pos(out.published, TradeEvent(nt[k])) < Pos(out.published, delta)
          /\ Pos(out.published, delta) < Pos(out.published, report)
          /\ k < Len(nt)
             => Pos(out.published, report)
                  < Pos(out.published, TradeEvent(nt[k + 1]))

(* C34: for every fill of a singleton submit or modify the resting order   *)
(* loses exactly the trade quantity; at 0 it is FILLED and a REMOVE delta  *)
(* is published, otherwise it stays ACTIVE and a MODIFY delta is           *)
(* published; the trade, the delta and the resting order's report of one   *)
(* fill are published in this order and before the trade of the next fill. *)
C34_EachFillIsPublishedBeforeTheNext ==
    /\ \A r \in FillSubmits :
          FillsInOrder(SubmitResult(r), NewTrades(SubmitResult(r)))
    /\ \A m \in FillModifies :
          FillsInOrder(ModifyResult(m), NewTrades(ModifyResult(m)))

(* a modify has moved a bid onto a resting sell of quantity 2 and taken 1  *)
(* of it (MODIFY delta), after a submit had filled another order (REMOVE)  *)
C34_PartialFillByModify ==
    /\ response.op = "modify" /\ response.code = 200
    /\ Len(TRADES) = 2
    /\ V2_ORDERS[TRADES[2].resting].status = "ACTIVE"
    /\ V2_ORDERS[TRADES[2].resting].quantity = 1
    /\ V2_ORDERS[TRADES[2].resting].original_quantity = 2

(* C35: the potential_balance that GET /balance answers to a logged-in     *)
(* user is the user's balance plus the signed commitments of the user's    *)
(* ACTIVE V2 orders.                                                       *)
C35_PotentialCountsV2OrdersOnly ==
    \A t \in TOKENS :
       handle_get_balance(t).code = 200
       => handle_get_balance(t).potential_balance
            = BALANCES[t[1]] + ActiveCommitment(V2_ORDERS, t[1])

(* C36: after every request no contract has an ACTIVE bid with quantity    *)
(* left at a price >= the price of an ACTIVE ask with quantity left.       *)
C36_BookNeverCrossed ==
    \A i, j \in DOMAIN V2_ORDERS :
       (/\ V2_ORDERS[i].status = "ACTIVE" /\ V2_ORDERS[i].quantity > 0
        /\ V2_ORDERS[j].status = "ACTIVE" /\ V2_ORDERS[j].quantity > 0
        /\ V2_ORDERS[i].side = "buy" /\ V2_ORDERS[j].side = "sell"
        /\ V2_ORDERS[i].delivery_start = V2_ORDERS[j].delivery_start)
       => V2_ORDERS[i].price < V2_ORDERS[j].price


--------------------------------------------------------------------------
(* the sum of the stored balances of all users *)
TotalBalance(bal) ==
    LET RECURSIVE Sum(_)
        Sum(S) == IF S = {} THEN 0
                  ELSE LET u == CHOOSE x \in S : TRUE
                       IN bal[u] + Sum(S \ {u})
    IN Sum(DOMAIN bal)

Quiescent == \A th \in 1 .. MaxThreads : THREADS[th].pc = "idle"

(* C37: whenever no request is being served, the balances of all users    *)
(* sum to 0, also after two requests applied trades to the balance of the  *)
(* same user concurrently.                                                 *)
C37_BalancesSumToZero ==
    Quiescent => TotalBalance(BALANCES) = 0


(* C38: no trade of the V2 book has the same user as buyer and as seller,  *)
(* whether its orders were submitted one after the other, concurrently or  *)
(* inside one batch.                                                       *)
C38_NoSelfTrade ==
    \A k \in DOMAIN TRADES :
       TRADES[k].source = "v2" => TRADES[k].buyer_id # TRADES[k].seller_id

(* one user has a bid and an offer on the book that cross each other, and  *)
(* the bid or the offer has been hit by a trade                            *)
C38_OwnOrdersCrossAndOneTraded ==
    \E i, j \in DOMAIN V2_ORDERS :
       /\ V2_ORDERS[i].owner = V2_ORDERS[j].owner
       /\ V2_ORDERS[i].side = "buy" /\ V2_ORDERS[j].side = "sell"
       /\ V2_ORDERS[i].delivery_start = V2_ORDERS[j].delivery_start
       /\ V2_ORDERS[i].price >= V2_ORDERS[j].price
       /\ \E k \in DOMAIN TRADES :
             TRADES[k].source = "v2" /\ TRADES[k].resting \in {i, j}


(* the trades of the log in which order i was the resting side *)
TradesAgainst(i) == SelectSeq(TRADES, LAMBDA t : t.source = "v2" /\ t.resting = i)

(* C39: the trades in which an order is the resting side never add up to   *)
(* more than the quantity the order came to the book with, also when two   *)
(* submits that cross it are served concurrently.                          *)
C39_RestingOrderNotOverfilled ==
    \A i \in DOMAIN V2_ORDERS :
       TradedQuantity(TradesAgainst(i)) <= V2_ORDERS[i].original_quantity


(* C40: once DELETE /v2/orders/{id} has marked an order CANCELLED and      *)
(* answered 204, no trade is appended with that order as the resting side, *)
(* also when a submit that had selected the order is being served.         *)
C40_NoTradeAgainstCancelledOrder ==
    [][\A k \in DOMAIN TRADES' :
          (k \notin DOMAIN TRADES /\ TRADES'[k].source = "v2")
          => V2_ORDERS[TRADES'[k].resting].status # "CANCELLED"]_vars

====
